---------------------------- MODULE Spec2Model ----------------------------
(***************************************************************************)
(* Model of the solution-search core of the timetable generator:           *)
(*   src/src/basic_algorithm_implementations/simulated_annealing.py        *)
(*   src/src/basic_algorithm_implementations/genetic_algorithms.py         *)
(*   src/src/basic_algorithm_implementations/hybrid_algorithm.py           *)
(*   src/src/basic_algorithm_implementations/constraint_programming.py     *)
(*   src/src/basic_algorithm_implementations/utils.py (violation counts)   *)
(*                                                                         *)
(* A Python solution is a dict  course_id -> {teacher_id, room_id,         *)
(* time_slot_id}.  The inner dicts are objects: dict.copy() is shallow, so *)
(* two solutions can hold the SAME inner dict.  The model keeps the inner  *)
(* dicts in `heap` (per course, a sequence of assignment records) and a    *)
(* solution is a function from course ids to indices into heap[course].    *)
(***************************************************************************)
EXTENDS Integers, Sequences, FiniteSets, TLC

VARIABLES
  data,          \* the reference data handed to the constructors
  pc,            \* position of the running strategy
  result,        \* what run() returned: <<>> until it returns, then <<value>>
  ev_order,      \* evaluator input: the key (iteration) order of the dict
  ev_sol,        \* evaluator input: course id -> assignment record
  ev_cost,       \* result of SimulatedAnnealing._calculate_cost
  ev_fitness,    \* result of GeneticAlgorithm._calculate_fitness
  heap,          \* course id -> sequence of inner dicts (assignment records)
  sa_params,     \* SimulatedAnnealing.params
  current_solution,  \* SA: course id -> index into heap[course id]
  best_solution,     \* SA: course id -> index into heap[course id]
  current_cost,      \* SA
  best_cost,         \* SA
  temperature,       \* SA: local `temperature`, the fraction <<numerator, denominator>>
  iteration,         \* SA: number of iterations done (local `iteration`)
  neighbor,          \* SA: local `neighbor`
  neighbor_cost,     \* SA: local `neighbor_cost`
  accepted_costs,    \* history: the values current_cost took at accepted steps
  start_cost,        \* history: current_cost when the annealing started
  ga_params,         \* GeneticAlgorithm.params
  population,        \* GA: sequence of solutions (course id -> heap index)
  ga_best_solution,  \* GA: best_solution, <<>> for None, else <<solution>>
  best_fitness,      \* GA
  generation,        \* GA: loop variable of run()
  fitness_values,    \* GA: local of run()
  new_population,    \* GA: local of run()
  parent1,           \* GA: local of run(), an index into population (0: unset)
  parent2,           \* GA: local of run(), an index into population (0: unset)
  child,             \* GA: local of run()
  recombined,        \* history: whether the last _crossover took the cut branch
  elite_snapshot,    \* history: the assignments of the elites when they were picked
  hybrid_params,     \* HybridAlgorithm.hybrid_params (<<>>: no hybrid is running)
  best_fitness_history,  \* Hybrid
  stagnation_count,      \* Hybrid
  sorted_indices,    \* Hybrid: local of run()
  elite_index,       \* Hybrid: loop variable i of the elitism loop
  sa_left,           \* Hybrid: iterations _apply_sa_to_solution still has to do
  sa_target,         \* Hybrid: the caller of _apply_sa_to_solution
  cp_params,         \* ConstraintProgramming.params
  cp_solution,       \* CP: local `solution`, course id -> assignment record
  cp_order,          \* CP: unassigned_courses as sorted by _backtracking_search
  cp_stack,          \* CP: one entry per active _backtrack call: the triple it is at
  cp_iteration,      \* CP: loop variable of _iterative_forward_checking
  cp_position,       \* CP: how many courses the current pass has visited
  cp_unassigned,     \* CP: local `unassigned` of the current pass
  cp_best_solution,  \* CP: local `best_solution`
  cp_best_unassigned, \* CP: local `best_unassigned`
  cp_modes,          \* history: the search modes run() has entered, in order
  cp_passes          \* history: solution and unassigned count of every pass ended

evVars == <<ev_order, ev_sol, ev_cost, ev_fitness>>
saSols == <<current_solution, best_solution, neighbor>>
saCore == <<sa_params, current_cost, best_cost, temperature, iteration,
            neighbor_cost, accepted_costs, start_cost>>
gaSols == <<ga_best_solution, population, new_population, child>>
gaCore == <<ga_params, best_fitness, generation, fitness_values, parent1, parent2,
            recombined, elite_snapshot>>
hyVars == <<hybrid_params, best_fitness_history, stagnation_count, sorted_indices,
            elite_index, sa_left, sa_target>>
cpVars == <<cp_params, cp_solution, cp_order, cp_stack, cp_iteration, cp_position,
            cp_unassigned, cp_best_solution, cp_best_unassigned, cp_modes,
            cp_passes>>
vars == <<data, pc, result, evVars, heap, saSols, saCore, gaSols, gaCore, hyVars,
          cpVars>>

-----------------------------------------------------------------------------
(* Bounds of the model *)

\* number of courses of the instances fed to the evaluator
NumCourses == 2

\* SA: the max_iterations parameter of the runs explored
MaxIterations == 3

\* GA: the population_size parameter of the runs explored
PopulationSize == 2

\* GA: the generations parameter of the runs explored
Generations == 2

\* hybrid_params['sa_iterations_per_generation']
SAIterationsPerGeneration == 1

\* CP: the max_iterations parameter of the runs explored
CPMaxIterations == 2

-----------------------------------------------------------------------------
(* Generic helpers *)

RECURSIVE SumOver(_, _)
\* sum of f[x] for x in the finite set S
SumOver(f, S) ==
  IF S = {} THEN 0
  ELSE LET x == CHOOSE y \in S : TRUE
       IN f[x] + SumOver(f, S \ {x})

Abs(n) == IF n < 0 THEN -n ELSE n

Range(s) == {s[i] : i \in 1..Len(s)}

\* all sequences that list every element of the finite set S exactly once
Perms(S) ==
  {s \in [1..Cardinality(S) -> S] : \A i, j \in 1..Cardinality(S) : i # j => s[i] # s[j]}

\* floor of the square root
ISqrt(n) == CHOOSE r \in 0..n : r * r <= n /\ (r + 1) * (r + 1) > n

\* the elements of seq s that lie in S, in the order of s
RECURSIVE Restrict(_, _)
Restrict(s, S) ==
  IF s = <<>> THEN <<>>
  ELSE IF Head(s) \in S THEN <<Head(s)>> \o Restrict(Tail(s), S)
       ELSE Restrict(Tail(s), S)

-----------------------------------------------------------------------------
(* Reference data (models.py): what data['teachers'], data['courses'], ...  *)
(* hold.  Dicts keep insertion order, so every id collection is a sequence. *)

AllCourseIds ==
  <<"c1", "c2", "c3", "c4", "c5", "c6", "c7", "c8", "c9", "c10", "c11", "c12", "c13",
    "c14", "c15", "c16", "c17", "c18", "c19", "c20", "c21">>

\* the first n course ids, in the key order of data['courses']
CourseIds(n) == SubSeq(AllCourseIds, 1, n)

TeacherIds == <<"t1", "t2">>
RoomIds == <<"r1", "r2">>
SlotIds == <<"s1", "s2", "s3">>
GroupIds == <<"g1", "g2">>

\* TimeSlot records: s1 and s2 are adjacent on the same day, s3 is on another day
SlotTable ==
  [s \in Range(SlotIds) |->
     CASE s = "s1" -> [day |-> "Mon", start_time |-> 540, end_time |-> 600]
       [] s = "s2" -> [day |-> "Mon", start_time |-> 600, end_time |-> 660]
       [] OTHER    -> [day |-> "Tue", start_time |-> 540, end_time |-> 600]]

\* StudentGroup.students: g1 has exactly four students, g2 shares two of them
GroupStudents ==
  [g \in Range(GroupIds) |-> IF g = "g1" THEN {1, 2, 3, 4} ELSE {3, 4, 5}]

\* a reference-data record
MkData(cids, elig, rooms, cgroups, mentors, gcourses, slots) ==
  [course_ids        |-> cids,
   eligible_teachers |-> elig,
   preferred_rooms   |-> rooms,
   student_groups    |-> cgroups,
   hours_per_week    |-> [c \in Range(cids) |-> 3],
   teacher_ids       |-> TeacherIds,
   is_mentor         |-> [t \in Range(TeacherIds) |-> t \in mentors],
   slot_ids          |-> slots,
   time_slots        |-> SlotTable,
   group_ids         |-> GroupIds,
   group_students    |-> GroupStudents,
   group_courses     |-> gcourses]

Courses(d) == Range(d.course_ids)
Teachers(d) == Range(d.teacher_ids)
TimeSlots(d) == Range(d.slot_ids)

\* the instances the evaluator is run on: every course may take any teacher,
\* room and slot; the mentor flags and group links vary
EvalInstances ==
  LET cids == CourseIds(NumCourses)
      C == Range(cids)
      full == [c \in C |-> TeacherIds]
      rms == [c \in C |-> RoomIds]
  IN { MkData(cids, full, rms, [c \in C |-> <<>>], {},
              [g \in Range(GroupIds) |-> {}], SlotIds),
       MkData(cids, full, rms, [c \in C |-> <<"g1">>], {"t1"},
              [g \in Range(GroupIds) |-> IF g = "g1" THEN C ELSE {}], SlotIds),
       MkData(cids, full, rms, [c \in C |-> <<"g1", "g2">>], {"t1"},
              [g \in Range(GroupIds) |-> C], SlotIds),
       MkData(cids, full, rms,
              [c \in C |-> IF c = "c1" THEN <<"g1">> ELSE <<"g2">>], {"t1"},
              [g \in Range(GroupIds) |-> IF g = "g1" THEN {"c1"} ELSE C \ {"c1"}],
              SlotIds),
       MkData(cids, full, rms, [c \in C |-> <<>>], {"t1", "t2"},
              [g \in Range(GroupIds) |-> IF g = "g1" THEN C ELSE {}], SlotIds),
       \* one course more, a single slot, no mentor and no group: three courses
       \* can share a teacher or a room in the slot
       MkData(CourseIds(NumCourses + 1),
              [c \in Range(CourseIds(NumCourses + 1)) |-> TeacherIds],
              [c \in Range(CourseIds(NumCourses + 1)) |-> RoomIds],
              [c \in Range(CourseIds(NumCourses + 1)) |-> <<>>], {},
              [g \in Range(GroupIds) |-> {}], <<"s1">>) }

\* an assignment: the inner dict of a solution
Assignment(t, r, s) == [teacher_id |-> t, room_id |-> r, time_slot_id |-> s]

\* every assignment over the ids of d (the evaluator accepts any of them)
AnyAssignment(d) ==
  {Assignment(t, r, s) : t \in Teachers(d), r \in Range(RoomIds), s \in TimeSlots(d)}

-----------------------------------------------------------------------------
(* The evaluators.  `order` is the key order in which the dict is iterated, *)
(* `sol` maps each course id of `order` to its assignment record.           *)

\* a count of every pair of entries with the same (id, time slot)
OverlapCountPairs(order, sol, key, seen) ==
  Cardinality({p \in (1..Len(order)) \X (1..Len(order)) :
                 /\ p[1] < p[2]
                 /\ sol[order[p[1]]][key] = sol[order[p[2]]][key]
                 /\ sol[order[p[1]]].time_slot_id = sol[order[p[2]]].time_slot_id})

RECURSIVE OverlapCount(_, _, _, _)
\* the loops over solution.items() that fill teacher_timeslots / room_timeslots:
\* an entry whose (id, time slot) was seen before counts one violation
OverlapCount(order, sol, key, seen) ==
  IF order = <<>> THEN 0
  ELSE LET a == sol[Head(order)]
           k == <<a[key], a.time_slot_id>>
       IN IF k \in seen
          THEN 1 + OverlapCount(Tail(order), sol, key, seen)
          ELSE OverlapCount(Tail(order), sol, key, seen \cup {k})

\* the students of the groups a course serves (course.student_groups)
CourseStudents(d, c) ==
  UNION {d.group_students[g] : g \in Range(d.student_groups[c])}

RECURSIVE MentorStudentsOverwrite(_, _, _, _)
\* a collection loop that assigns the students instead of adding them
MentorStudentsOverwrite(d, order, sol, t) ==
  IF order = <<>> THEN {}
  ELSE LET c == order[Len(order)]
           before == MentorStudentsOverwrite(d, SubSeq(order, 1, Len(order) - 1), sol, t)
       IN IF sol[c].teacher_id = t /\ CourseStudents(d, c) # {}
          THEN CourseStudents(d, c)
          ELSE before

RECURSIVE MentorStudents(_, _, _, _)
\* SA: mentor_students[t] after the collection loop over solution.items():
\* each course assigned to t adds (set.update) the students of its groups
MentorStudents(d, order, sol, t) ==
  IF order = <<>> THEN {}
  ELSE LET c == order[Len(order)]
           before == MentorStudents(d, SubSeq(order, 1, Len(order) - 1), sol, t)
       IN IF sol[c].teacher_id = t
          THEN before \cup CourseStudents(d, c)
          ELSE before

\* SA: violations["mentor_group_size"]
MentorGroupSize(d, order, sol) ==
  SumOver([t \in Teachers(d) |->
             IF d.is_mentor[t]
             THEN Abs(Cardinality(MentorStudents(d, order, sol, t)) - 4)
             ELSE 0],
          Teachers(d))

\* SimulatedAnnealing._calculate_cost: the back_to_back_sessions and
\* equitable_teaching_load counters are initialised to 0 and never written
calculate_cost(d, order, sol) ==
  LET teacher_overlap == OverlapCount(order, sol, "teacher_id", {})
      room_overlap == OverlapCount(order, sol, "room_id", {})
      mentor_group_size == MentorGroupSize(d, order, sol)
      back_to_back_sessions == 0
      equitable_teaching_load == 0
      hard_penalty == 100 * teacher_overlap + 100 * room_overlap
                      + 100 * mentor_group_size
      soft_penalty == 50 * back_to_back_sessions + 40 * equitable_teaching_load
  IN hard_penalty + soft_penalty

\* GA: mentor_students[t] after the counting loop over student_groups.items():
\* len(group.students) is added once per (group, course) pair with the course
\* in group.courses and assigned to t
GAMentorCount(d, order, sol, t) ==
  SumOver([g \in Range(d.group_ids) |->
             Cardinality({c \in Range(order) :
                            c \in d.group_courses[g] /\ sol[c].teacher_id = t})
             * Cardinality(d.group_students[g])],
          Range(d.group_ids))

\* GeneticAlgorithm._calculate_fitness
calculate_fitness(d, order, sol) ==
  LET teacher_conflict_penalty == 100 * OverlapCount(order, sol, "teacher_id", {})
      room_conflict_penalty == 100 * OverlapCount(order, sol, "room_id", {})
      mentor_group_penalty ==
        SumOver([t \in Teachers(d) |->
                   IF d.is_mentor[t]
                   THEN 50 * Abs(GAMentorCount(d, order, sol, t) - 4)
                   ELSE 0],
                Teachers(d))
  IN -(teacher_conflict_penalty + room_conflict_penalty + mentor_group_penalty)

\* utils.calculate_constraint_violations, back-to-back part: per teacher the
\* assigned slots are grouped by day and sorted by start time; a pair of
\* consecutive sessions with end = next start counts once
BackToBackSessions(d, order, sol) ==
  SumOver([t \in Teachers(d) |->
             LET mine == {sol[c].time_slot_id : c \in {x \in Range(order) : sol[x].teacher_id = t}}
             IN Cardinality({p \in mine \X mine :
                   /\ d.time_slots[p[1]].day = d.time_slots[p[2]].day
                   /\ d.time_slots[p[1]].end_time = d.time_slots[p[2]].start_time
                   /\ ~ \E q \in mine :
                          /\ d.time_slots[q].day = d.time_slots[p[1]].day
                          /\ d.time_slots[q].start_time > d.time_slots[p[1]].start_time
                          /\ d.time_slots[q].start_time < d.time_slots[p[2]].start_time})],
          Teachers(d))

\* utils.calculate_constraint_violations, equitable-load part:
\* int(10 * population standard deviation of the teachers' weekly hours)
EquitableTeachingLoad(d, order, sol) ==
  LET T == Teachers(d)
      n == Cardinality(T)
      load == [t \in T |->
                 SumOver([c \in Range(order) |-> d.hours_per_week[c]],
                         {c \in Range(order) : sol[c].teacher_id = t})]
      s1 == SumOver(load, T)
      s2 == SumOver([t \in T |-> load[t] * load[t]], T)
  IN IF n = 0 THEN 0 ELSE ISqrt(100 * (n * s2 - s1 * s1)) \div n

-----------------------------------------------------------------------------
(* Solutions on the heap *)

\* the dict with no entries
EmptyDict == <<>>

\* the assignments a solution holds: course id -> assignment record
Deref(h, sol) == [c \in DOMAIN sol |-> h[c][sol[c]]]

\* dict.copy(): a new outer dict holding the same inner dicts
ShallowCopy(sol) == sol

\* the key order of a dict built by visiting the courses in data order
KeyOrder(d, sol) == Restrict(d.course_ids, DOMAIN sol)

\* _calculate_cost of a solution on the heap
CostOf(d, h, sol) == calculate_cost(d, KeyOrder(d, sol), Deref(h, sol))

\* _calculate_fitness of a solution on the heap
FitnessOf(d, h, sol) == calculate_fitness(d, KeyOrder(d, sol), Deref(h, sol))

\* a draw from every id of the reference data, whatever the course
FieldValuesAnyId(d, c, field) ==
  CASE field = "teacher_id" -> Teachers(d)
    [] field = "room_id"    -> Range(RoomIds)
    [] OTHER                -> TimeSlots(d)

\* the values random.choice may draw for a field of course c
FieldValues(d, c, field) ==
  CASE field = "teacher_id" -> Range(d.eligible_teachers[c])
    [] field = "room_id"    -> Range(d.preferred_rooms[c])
    [] OTHER                -> TimeSlots(d)

Fields == {"teacher_id", "room_id", "time_slot_id"}

\* the heap after  sol[c][field] = v  (a write into the inner dict)
HeapWrite(h, c, ref, field, v) == [h EXCEPT ![c][ref][field] = v]

\* the courses the random construction can assign: none of its three
\* random.choice calls gets an empty list
Assignable(d) ==
  {c \in Courses(d) : /\ d.eligible_teachers[c] # <<>>
                      /\ d.preferred_rooms[c] # <<>>
                      /\ d.slot_ids # <<>>}

\* the assignments the random construction may give course c
LegalAssignments(d, c) ==
  {Assignment(t, r, s) : t \in Range(d.eligible_teachers[c]),
                         r \in Range(d.preferred_rooms[c]),
                         s \in TimeSlots(d)}

\* float('-inf'), below every fitness
NegInf == -1000000

\* state of a strategy that is not running
EvalIdle == ev_order = <<>> /\ ev_sol = <<>> /\ ev_cost = 0 /\ ev_fitness = 0

SAIdle ==
  /\ sa_params = <<>>
  /\ current_solution = EmptyDict
  /\ best_solution = EmptyDict
  /\ current_cost = 0
  /\ best_cost = 0
  /\ temperature = <<0, 1>>
  /\ iteration = 0
  /\ neighbor = EmptyDict
  /\ neighbor_cost = 0
  /\ accepted_costs = {}
  /\ start_cost = 0

GAIdle ==
  /\ ga_params = <<>>
  /\ population = <<>>
  /\ ga_best_solution = <<>>
  /\ best_fitness = NegInf
  /\ generation = 0
  /\ fitness_values = <<>>
  /\ new_population = <<>>
  /\ parent1 = 0
  /\ parent2 = 0
  /\ child = EmptyDict
  /\ recombined = FALSE
  /\ elite_snapshot = <<>>

HybridIdle ==
  /\ hybrid_params = <<>>
  /\ best_fitness_history = <<>>
  /\ stagnation_count = 0
  /\ sorted_indices = <<>>
  /\ elite_index = 0
  /\ sa_left = 0
  /\ sa_target = "none"

CPIdle ==
  /\ cp_params = <<>>
  /\ cp_solution = EmptyDict
  /\ cp_order = <<>>
  /\ cp_stack = <<>>
  /\ cp_iteration = 0
  /\ cp_position = 0
  /\ cp_unassigned = <<>>
  /\ cp_best_solution = EmptyDict
  /\ cp_best_unassigned = 0
  /\ cp_modes = <<>>
  /\ cp_passes = <<>>

-----------------------------------------------------------------------------
(* Evaluator runs: the input is any dict over the instance's ids.           *)

InitEval ==
  /\ data \in EvalInstances
  /\ pc = "ev_ready"
  /\ \E S \in SUBSET Courses(data) :
       /\ ev_order \in Perms(S)
       /\ ev_sol \in [S -> AnyAssignment(data)]
  /\ ev_cost = 0
  /\ ev_fitness = 0
  /\ heap = <<>>
  /\ result = <<>>
  /\ SAIdle
  /\ GAIdle
  /\ HybridIdle
  /\ CPIdle

\* one call of each evaluator on the same dict
EV_Evaluate ==
  /\ pc = "ev_ready"
  /\ ev_cost' = calculate_cost(data, ev_order, ev_sol)
  /\ ev_fitness' = calculate_fitness(data, ev_order, ev_sol)
  /\ pc' = "ev_done"
  /\ UNCHANGED <<data, result, ev_order, ev_sol, heap, saSols, saCore, gaSols, gaCore,
                 hyVars, cpVars>>

\* the same assignments held by a dict with another key order
EV_Reorder ==
  /\ pc = "ev_done"
  /\ \E o \in Perms(Range(ev_order)) :
       /\ o # ev_order
       /\ ev_order' = o
  /\ pc' = "ev_ready"
  /\ UNCHANGED <<data, result, ev_sol, ev_cost, ev_fitness, heap, saSols, saCore,
                 gaSols, gaCore, hyVars, cpVars>>

NextEval == EV_Evaluate \/ EV_Reorder

SpecEval == InitEval /\ [][NextEval]_vars

-----------------------------------------------------------------------------
(* Claims about the evaluators (checked under SpecEval) *)

\* C1 (as stated): the cost returned by SimulatedAnnealing._calculate_cost is
\* 100*(teacher_overlap + room_overlap + mentor_group_size)
\* + 50*back_to_back + 40*equitable_load, with back_to_back the number of
\* zero-gap adjacencies of a teacher's same-day sessions and equitable_load
\* the teaching-load spread count.
C1_CostIsFullWeightedSum ==
  pc = "ev_done" =>
    ev_cost = 100 * (OverlapCount(ev_order, ev_sol, "teacher_id", {})
                     + OverlapCount(ev_order, ev_sol, "room_id", {})
                     + MentorGroupSize(data, ev_order, ev_sol))
              + 50 * BackToBackSessions(data, ev_order, ev_sol)
              + 40 * EquitableTeachingLoad(data, ev_order, ev_sol)

\* C2 (as stated): the GA fitness of a solution is the negation of the SA
\* cost of the same solution under the same reference data.
C2_FitnessIsNegatedCost ==
  pc = "ev_done" => ev_fitness = -ev_cost

\* C3: the cost and the fitness computed for a dict are the ones every other
\* key order of the same dict yields.
C3_OrderIndependent ==
  pc = "ev_done" =>
    \A o \in Perms(Range(ev_order)) :
      /\ calculate_cost(data, o, ev_sol) = ev_cost
      /\ calculate_fitness(data, o, ev_sol) = ev_fitness

\* C3 witness: an evaluated dict of two or more courses, two of them with the
\* same teacher in the same slot, taught by a mentor who reaches students
C3_Witness ==
  /\ pc = "ev_done"
  /\ Len(ev_order) >= 2
  /\ \E c1, c2 \in Range(ev_order) :
       /\ c1 # c2
       /\ ev_sol[c1].teacher_id = ev_sol[c2].teacher_id
       /\ ev_sol[c1].time_slot_id = ev_sol[c2].time_slot_id
       /\ data.is_mentor[ev_sol[c1].teacher_id]
       /\ CourseStudents(data, c1) # CourseStudents(data, c2)
  /\ ev_cost >= 100
  /\ ev_fitness <= -100

-----------------------------------------------------------------------------
(* Simulated annealing (simulated_annealing.py) *)

\* the instances SA is run on
SAInstances ==
  LET two == CourseIds(2)
      one == CourseIds(1)
      groups == [c \in Range(two) |-> IF c = "c1" THEN <<"g1">> ELSE <<>>]
      gc == [g \in Range(GroupIds) |-> IF g = "g1" THEN {"c1"} ELSE {}]
      slots == <<"s1", "s2">>
  IN { \* two courses that can collide on teacher t1 and on room r1; t2 mentors
       MkData(two, [c \in Range(two) |-> IF c = "c1" THEN <<"t1", "t2">> ELSE <<"t1">>],
              [c \in Range(two) |-> IF c = "c1" THEN <<"r1">> ELSE <<"r1", "r2">>],
              groups, {"t2"}, gc, slots),
       \* c2 has no preferred room: the construction skips it
       MkData(two, [c \in Range(two) |-> <<"t1", "t2">>],
              [c \in Range(two) |-> IF c = "c1" THEN <<"r1">> ELSE <<>>],
              groups, {"t2"}, gc, slots),
       \* the only course has no eligible teacher: the solution is empty
       MkData(one, [c \in Range(one) |-> <<>>], [c \in Range(one) |-> <<"r1">>],
              [c \in Range(one) |-> <<>>], {}, [g \in Range(GroupIds) |-> {}], slots) }

\* the parameter sets explored: one run ends by temperature, one by iterations
SAParamSets ==
  { [initial_temperature |-> 4, final_temperature |-> 1,
     cooling_num |-> 1, cooling_den |-> 2, max_iterations |-> MaxIterations],
    [initial_temperature |-> 100, final_temperature |-> 1,
     cooling_num |-> 9, cooling_den |-> 10, max_iterations |-> MaxIterations] }

\* temperature > bound, for the fraction temp
TempAbove(temp, bound) == temp[1] > bound * temp[2]

\* temperature *= cooling_rate
Cool(temp, p) == <<temp[1] * p.cooling_num, temp[2] * p.cooling_den>>

\* a comparison the wrong way round
acceptance_probability_flipped(current, new, temp) ==
  IF new > current THEN "one" ELSE "fraction"

\* SimulatedAnnealing._acceptance_probability: "one" is 1.0, "fraction" a
\* float of [0, 1) (math.exp of a negative number); exp(0) is 1.0
acceptance_probability(current, new, temp) ==
  IF new < current THEN "one"
  ELSE IF current - new = 0 THEN "one" ELSE "fraction"

\* a best-so-far update taken at every accepted step
ImprovesBestAlways(new_cost, best) == TRUE

\* run(): if neighbor_cost < self.best_cost
ImprovesBest(new_cost, best) == new_cost < best

\* the outcomes of  prob > random.random()  with random.random() in [0, 1)
AcceptOutcomes(prob) == IF prob = "one" THEN {TRUE} ELSE {TRUE, FALSE}

\* a neighbour step that writes the teacher and the time slot of the course
NeighborHeapsTwoFields(d, h, sol) ==
  {h} \cup
  { HeapWrite(HeapWrite(h, q[1], sol[q[1]], "teacher_id", q[2]),
              q[1], sol[q[1]], "time_slot_id", q[3]) :
      q \in { x \in (DOMAIN sol) \X Teachers(d) \X TimeSlots(d) :
                x[2] \in FieldValues(d, x[1], "teacher_id") } }

\* the heaps _generate_neighbor can leave: one field of one course of the
\* copy written in place (the copy holds the inner dicts of `sol`)
NeighborHeaps(d, h, sol) ==
  {h} \cup
  { HeapWrite(h, q[1], sol[q[1]], q[2], q[3]) :
      q \in { x \in (DOMAIN sol) \X Fields \X
                    (Teachers(d) \cup Range(RoomIds) \cup TimeSlots(d)) :
                x[3] \in FieldValues(d, x[1], x[2]) } }

\* the while condition of run()
LoopGuard == /\ TempAbove(temperature, sa_params.final_temperature)
             /\ iteration < sa_params.max_iterations

\* one loop iteration, first half (run() and _apply_sa_to_solution alike):
\* neighbor = _generate_neighbor(current_solution) and its cost
GenerateNeighborStep ==
  /\ Courses(data) = {} \/ DOMAIN current_solution # {}
  /\ neighbor' = ShallowCopy(current_solution)
  /\ heap' \in (IF Courses(data) = {} THEN {heap}
                ELSE NeighborHeaps(data, heap, current_solution))
  /\ neighbor_cost' = CostOf(data, heap', neighbor')
  /\ UNCHANGED <<current_solution, best_solution, sa_params, current_cost, best_cost,
                 temperature, iteration, accepted_costs, start_cost>>

\* one loop iteration, second half (run() and _apply_sa_to_solution alike):
\* acceptance, best-so-far, cooling
AcceptStep ==
  /\ \E take \in AcceptOutcomes(acceptance_probability(current_cost, neighbor_cost,
                                                       temperature)) :
       IF take
       THEN /\ current_solution' = neighbor
            /\ current_cost' = neighbor_cost
            /\ accepted_costs' = accepted_costs \cup {neighbor_cost}
            /\ IF ImprovesBest(neighbor_cost, best_cost)
               THEN /\ best_solution' = ShallowCopy(neighbor)
                    /\ best_cost' = neighbor_cost
               ELSE UNCHANGED <<best_solution, best_cost>>
       ELSE UNCHANGED <<current_solution, current_cost, accepted_costs,
                        best_solution, best_cost>>
  /\ temperature' = Cool(temperature, sa_params)
  /\ UNCHANGED <<heap, neighbor, neighbor_cost, sa_params, start_cost>>

\* SimulatedAnnealing.__init__ followed by the first statement of run()
InitSA ==
  /\ data \in SAInstances
  /\ sa_params \in SAParamSets
  /\ pc = "sa_loop"
  /\ heap \in [Courses(data) -> {<<>>} \cup {<<a>> : a \in AnyAssignment(data)}]
  /\ \A c \in Courses(data) :
       IF c \in Assignable(data)
       THEN Len(heap[c]) = 1 /\ heap[c][1] \in LegalAssignments(data, c)
       ELSE heap[c] = <<>>
  /\ current_solution = [c \in Assignable(data) |-> 1]
  /\ best_solution = ShallowCopy(current_solution)
  /\ current_cost = CostOf(data, heap, current_solution)
  /\ best_cost = current_cost
  /\ temperature = <<sa_params.initial_temperature, 1>>
  /\ iteration = 0
  /\ neighbor = EmptyDict
  /\ neighbor_cost = 0
  /\ accepted_costs = {}
  /\ start_cost = current_cost
  /\ result = <<>>
  /\ EvalIdle
  /\ GAIdle
  /\ HybridIdle
  /\ CPIdle

\* run(), one iteration, first half
SA_GenerateNeighbor ==
  /\ pc = "sa_loop"
  /\ LoopGuard
  /\ GenerateNeighborStep
  /\ pc' = "sa_accept"
  /\ UNCHANGED <<data, result, evVars, gaSols, gaCore, hyVars, cpVars>>

\* run(): random.choice(list(neighbor.keys())) on a dict with no keys raises
SA_NeighborRaises ==
  /\ pc = "sa_loop"
  /\ LoopGuard
  /\ Courses(data) # {} /\ DOMAIN current_solution = {}
  /\ pc' = "sa_raised"
  /\ UNCHANGED <<data, result, evVars, heap, saSols, saCore, gaSols, gaCore, hyVars,
                 cpVars>>

\* run(), one iteration, second half; iteration += 1
SA_Accept ==
  /\ pc = "sa_accept"
  /\ AcceptStep
  /\ iteration' = iteration + 1
  /\ pc' = "sa_loop"
  /\ UNCHANGED <<data, result, evVars, gaSols, gaCore, hyVars, cpVars>>

\* run(): the loop condition fails, best_solution is returned
SA_Return ==
  /\ pc = "sa_loop"
  /\ ~LoopGuard
  /\ result' = <<best_solution>>
  /\ pc' = "sa_done"
  /\ UNCHANGED <<data, evVars, heap, saSols, saCore, gaSols, gaCore, hyVars, cpVars>>

NextSA == SA_GenerateNeighbor \/ SA_NeighborRaises \/ SA_Accept \/ SA_Return

SpecSA == InitSA /\ [][NextSA]_vars

-----------------------------------------------------------------------------
(* Object identity.  The inner dicts of a course are numbered in the order  *)
(* in which the live solutions first reach them, and the ones no solution   *)
(* reaches are dropped (Python frees them): two program states that differ  *)
(* only in the addresses of their dicts are one state.                      *)

RECURSIVE UsedRefs(_, _)
\* the indices of heap[c] the solutions of hs hold, in order of first use
UsedRefs(hs, c) ==
  IF hs = <<>> THEN <<>>
  ELSE LET rest == UsedRefs(SubSeq(hs, 1, Len(hs) - 1), c)
           last == hs[Len(hs)]
       IN IF c \in DOMAIN last /\ last[c] \notin Range(rest)
          THEN Append(rest, last[c])
          ELSE rest

IndexOf(s, x) == CHOOSE i \in 1..Len(s) : s[i] = x

CanonHeap(h, hs) ==
  [c \in DOMAIN h |->
     LET u == UsedRefs(hs, c) IN [i \in 1..Len(u) |-> h[c][u[i]]]]

CanonSol(hs, sol) == [c \in DOMAIN sol |-> IndexOf(UsedRefs(hs, c), sol[c])]

CanonSeq(hs, sols) == [i \in 1..Len(sols) |-> CanonSol(hs, sols[i])]

\* the next values of the heap and of every variable that holds a solution
Store(h, best, pop, newpop, ch, cur, bst, nb) ==
  LET hs == best \o pop \o newpop \o <<ch, cur, bst, nb>>
  IN /\ heap' = CanonHeap(h, hs)
     /\ ga_best_solution' = CanonSeq(hs, best)
     /\ population' = CanonSeq(hs, pop)
     /\ new_population' = CanonSeq(hs, newpop)
     /\ child' = CanonSol(hs, ch)
     /\ current_solution' = CanonSol(hs, cur)
     /\ best_solution' = CanonSol(hs, bst)
     /\ neighbor' = CanonSol(hs, nb)

-----------------------------------------------------------------------------
(* Genetic algorithm (genetic_algorithms.py) *)

\* the instances GA is run on
GAInstances ==
  LET two == CourseIds(2)
      one == CourseIds(1)
      slots == <<"s1", "s2">>
  IN { \* two courses that collide on room r1, and on teacher t1 when c1 takes
       \* t1; mentor t2 has the four students of g1 when teaching c1
       MkData(two, [c \in Range(two) |-> IF c = "c1" THEN <<"t1", "t2">> ELSE <<"t1">>],
              [c \in Range(two) |-> <<"r1">>],
              [c \in Range(two) |-> IF c = "c1" THEN <<"g1">> ELSE <<>>], {"t2"},
              [g \in Range(GroupIds) |-> IF g = "g1" THEN {"c1"} ELSE {}], slots),
       \* a single course
       MkData(one, [c \in Range(one) |-> <<"t1", "t2">>], [c \in Range(one) |-> <<"r1">>],
              [c \in Range(one) |-> <<"g1">>], {"t2"},
              [g \in Range(GroupIds) |-> IF g = "g1" THEN {"c1"} ELSE {}], slots),
       \* c2 has no preferred room
       MkData(two, [c \in Range(two) |-> <<"t1", "t2">>],
              [c \in Range(two) |-> IF c = "c1" THEN <<"r1">> ELSE <<>>],
              [c \in Range(two) |-> IF c = "c1" THEN <<"g1">> ELSE <<>>], {"t2"},
              [g \in Range(GroupIds) |-> IF g = "g1" THEN {"c1"} ELSE {}], slots) }

\* the parameter sets explored; mutation_rate and crossover_rate lie strictly
\* between 0 and 1, so both outcomes of each comparison with random.random()
\* can happen
GAParamSets ==
  { [population_size |-> PopulationSize, generations |-> Generations,
     tournament_size |-> 2, elitism_count |-> 1] }

\* random.sample(population, k): k distinct positions, in the order drawn
Samples(n, k) ==
  {s \in [1..k -> 1..n] : \A i, j \in 1..k : i # j => s[i] # s[j]}

\* fs.index(max(fs)): the first position of the maximum
FirstMaxIndex(fs) ==
  CHOOSE i \in 1..Len(fs) :
    /\ \A j \in 1..Len(fs) : fs[j] <= fs[i]
    /\ \A j \in 1..(i - 1) : fs[j] < fs[i]

\* _selection, one tournament: the positions of population it can return
TournamentWinners(d, h, pop, k) ==
  { s[FirstMaxIndex([i \in 1..k |-> FitnessOf(d, h, pop[s[i]])])] :
      s \in Samples(Len(pop), k) }

\* np.argsort(fitness_values)[::-1]: the positions by descending fitness;
\* argsort's default sort leaves the order of equal values open
SortedIndices(fs) ==
  {s \in Perms(1..Len(fs)) : \A i \in 1..(Len(fs) - 1) : fs[s[i]] >= fs[s[i + 1]]}

\* a cut range that starts one too low
CrossoverPointsFromZero(n) == 0..(n - 1)

\* _crossover: the values random.randint(1, len(courses) - 1) can return
CrossoverPoints(n) == 1..(n - 1)

\* _crossover: the parent whose entry the child copies for the course at
\* position i (from 1) of list(self.courses.keys()), cut at crossover_point
CrossoverSource(i, crossover_point) == IF i - 1 < crossover_point THEN 1 ELSE 2

\* _mutation: what the inner dict `a` of course c can hold after its turn
MutationOptions(d, c, a) ==
  {a} \cup
  { [a EXCEPT ![q[1]] = q[2]] :
      q \in { x \in Fields \X (Teachers(d) \cup Range(RoomIds) \cup TimeSlots(d)) :
                x[2] \in FieldValues(d, c, x[1]) } }

\* a construction that leaves out the last course
FreshPopulationSkipsLast(d, size) ==
  [i \in 1..size |->
     [c \in Courses(d) \ {d.course_ids[Len(d.course_ids)]} |-> i]]

\* the population _initialize_population returns: every individual is built
\* out of fresh inner dicts
FreshPopulation(d, size) == [i \in 1..size |-> [c \in Courses(d) |-> i]]

\* the heaps that go with FreshPopulation
FreshHeaps(d, size) ==
  {h \in [Courses(d) -> [1..size -> AnyAssignment(d)]] :
     \A c \in Courses(d) : \A i \in 1..size : h[c][i] \in LegalAssignments(d, c)}

\* run(): "Evaluate population" and "Update best solution" (the same
\* statements in GeneticAlgorithm.run and HybridAlgorithm.run)
EvaluateStep ==
  LET fs == [i \in 1..Len(population) |-> FitnessOf(data, heap, population[i])]
      max_fitness_idx == FirstMaxIndex(fs)
      better == fs[max_fitness_idx] > best_fitness
  IN /\ fitness_values' = fs
     /\ best_fitness' = IF better THEN fs[max_fitness_idx] ELSE best_fitness
     /\ Store(heap,
              IF better THEN <<ShallowCopy(population[max_fitness_idx])>>
              ELSE ga_best_solution,
              population, <<>>, child, current_solution, best_solution, neighbor)

\* child = self._mutation(child): _mutation writes into the inner dicts of
\* the dict it is given; the heaps it can leave
MutatedHeaps(d, h, ch) ==
  { [c \in DOMAIN h |-> IF c \in DOMAIN ch THEN [h[c] EXCEPT ![ch[c]] = m[c]]
                        ELSE h[c]] :
      m \in { f \in [DOMAIN ch -> AnyAssignment(d)] :
                \A c \in DOMAIN ch : f[c] \in MutationOptions(d, c, h[c][ch[c]]) } }

\* GeneticAlgorithm.__init__; _generate_random_timetable draws with
\* random.choice from the lists of every course, and random.choice raises on
\* an empty list
InitGA ==
  /\ data \in GAInstances
  /\ ga_params \in GAParamSets
  /\ IF Assignable(data) = Courses(data)
     THEN /\ pc = "ga_evaluate"
          /\ heap \in FreshHeaps(data, ga_params.population_size)
          /\ population = FreshPopulation(data, ga_params.population_size)
     ELSE /\ pc = "ga_init_raised"
          /\ heap = [c \in Courses(data) |-> <<>>]
          /\ population = <<>>
  /\ ga_best_solution = <<>>
  /\ best_fitness = NegInf
  /\ generation = 0
  /\ fitness_values = <<>>
  /\ new_population = <<>>
  /\ parent1 = 0
  /\ parent2 = 0
  /\ child = EmptyDict
  /\ recombined = FALSE
  /\ elite_snapshot = <<>>
  /\ result = <<>>
  /\ EvalIdle
  /\ SAIdle
  /\ HybridIdle
  /\ CPIdle

\* GeneticAlgorithm.run: "Evaluate population" and "Update best solution"
GA_Evaluate ==
  /\ pc = "ga_evaluate"
  /\ hybrid_params = <<>>
  /\ generation < ga_params.generations
  /\ EvaluateStep
  /\ pc' = "ga_elitism"
  /\ UNCHANGED <<data, result, evVars, saCore, hyVars, cpVars, ga_params, generation,
                 parent1, parent2, recombined, elite_snapshot>>

\* GeneticAlgorithm.run: "Elitism: keep the best solutions"
GA_Elitism ==
  /\ pc = "ga_elitism"
  /\ ga_params.elitism_count <= Len(population)
  /\ \E sorted \in SortedIndices(fitness_values) :
       LET elites == [i \in 1..ga_params.elitism_count |->
                        ShallowCopy(population[sorted[i]])]
       IN /\ Store(heap, ga_best_solution, population, elites, child,
                   current_solution, best_solution, neighbor)
          /\ elite_snapshot' = [i \in 1..ga_params.elitism_count |->
                                  Deref(heap, population[sorted[i]])]
  /\ pc' = "ga_breed"
  /\ UNCHANGED <<data, result, evVars, saCore, hyVars, cpVars, ga_params, best_fitness,
                 generation, fitness_values, parent1, parent2, recombined>>

\* run(): parent1, parent2 = self._selection()  (GA and Hybrid)
GA_Selection ==
  /\ pc = "ga_breed"
  /\ Len(new_population) < ga_params.population_size
  /\ ga_params.tournament_size <= Len(population)
  /\ parent1' \in TournamentWinners(data, heap, population, ga_params.tournament_size)
  /\ parent2' \in TournamentWinners(data, heap, population, ga_params.tournament_size)
  /\ pc' = "ga_crossover"
  /\ UNCHANGED <<data, result, evVars, heap, saSols, saCore, gaSols, hyVars, cpVars,
                 ga_params, best_fitness, generation, fitness_values, recombined,
                 elite_snapshot>>

\* run(): child = self._crossover(parent1, parent2), the branch that returns
\* parent1.copy()  (GA and Hybrid)
GA_CrossoverCopy ==
  /\ pc = "ga_crossover"
  /\ recombined' = FALSE
  /\ Store(heap, ga_best_solution, population, new_population,
           ShallowCopy(population[parent1]), current_solution, best_solution, neighbor)
  /\ pc' = "ga_mutation"
  /\ UNCHANGED <<data, result, evVars, saCore, hyVars, cpVars, ga_params, best_fitness,
                 generation, fitness_values, parent1, parent2, elite_snapshot>>

\* run(): child = self._crossover(parent1, parent2), the branch that cuts:
\* every entry of the child is a copy of a parent's inner dict  (GA and Hybrid)
GA_CrossoverCut ==
  /\ pc = "ga_crossover"
  /\ LET courses == data.course_ids
     IN \E crossover_point \in CrossoverPoints(Len(courses)) :
          LET from == [i \in 1..Len(courses) |->
                         IF CrossoverSource(i, crossover_point) = 1
                         THEN population[parent1] ELSE population[parent2]]
              h == [c \in DOMAIN heap |->
                      IF c \in Range(courses)
                      THEN Append(heap[c], heap[c][from[IndexOf(courses, c)][c]])
                      ELSE heap[c]]
              ch == [c \in Range(courses) |-> Len(h[c])]
          IN Store(h, ga_best_solution, population, new_population, ch,
                   current_solution, best_solution, neighbor)
  /\ recombined' = TRUE
  /\ pc' = "ga_mutation"
  /\ UNCHANGED <<data, result, evVars, saCore, hyVars, cpVars, ga_params, best_fitness,
                 generation, fitness_values, parent1, parent2, elite_snapshot>>

\* _crossover with fewer than two courses: random.randint(1, 0) raises
\* (GA and Hybrid)
GA_CrossoverRaises ==
  /\ pc = "ga_crossover"
  /\ Len(data.course_ids) - 1 < 1
  /\ pc' = "ga_raised"
  /\ UNCHANGED <<data, result, evVars, heap, saSols, saCore, gaSols, gaCore, hyVars,
                 cpVars>>

\* GeneticAlgorithm.run: child = self._mutation(child);
\* new_population.append(child)
GA_Mutation ==
  /\ pc = "ga_mutation"
  /\ hybrid_params = <<>>
  /\ \E h \in MutatedHeaps(data, heap, child) :
       Store(h, ga_best_solution, population, Append(new_population, child),
             EmptyDict, current_solution, best_solution, neighbor)
  /\ parent1' = 0
  /\ parent2' = 0
  /\ pc' = "ga_breed"
  /\ UNCHANGED <<data, result, evVars, saCore, hyVars, cpVars, ga_params, best_fitness,
                 generation, fitness_values, recombined, elite_snapshot>>

\* a breeding loop that stops one child short of population_size
GA_ReplaceOneShort ==
  /\ pc = "ga_breed"
  /\ hybrid_params = <<>>
  /\ Len(new_population) >= ga_params.population_size - 1
  /\ Store(heap, ga_best_solution, new_population, <<>>, child,
           current_solution, best_solution, neighbor)
  /\ generation' = generation + 1
  /\ pc' = "ga_evaluate"
  /\ UNCHANGED <<data, result, evVars, saCore, hyVars, cpVars, ga_params, best_fitness,
                 fitness_values, parent1, parent2, recombined, elite_snapshot>>

\* GeneticAlgorithm.run: self.population = new_population, and the next
\* generation starts
GA_Replace ==
  /\ pc = "ga_breed"
  /\ hybrid_params = <<>>
  /\ Len(new_population) >= ga_params.population_size
  /\ Store(heap, ga_best_solution, new_population, <<>>, child,
           current_solution, best_solution, neighbor)
  /\ generation' = generation + 1
  /\ pc' = "ga_evaluate"
  /\ UNCHANGED <<data, result, evVars, saCore, hyVars, cpVars, ga_params, best_fitness,
                 fitness_values, parent1, parent2, recombined, elite_snapshot>>

\* GeneticAlgorithm.run: the generations are used up, best_solution is
\* returned
GA_Return ==
  /\ pc = "ga_evaluate"
  /\ hybrid_params = <<>>
  /\ generation >= ga_params.generations
  /\ result' = <<ga_best_solution>>
  /\ pc' = "ga_done"
  /\ UNCHANGED <<data, evVars, heap, saSols, saCore, gaSols, gaCore, hyVars, cpVars>>

NextGA ==
  \/ GA_Evaluate
  \/ GA_Elitism
  \/ GA_Selection
  \/ GA_CrossoverCopy
  \/ GA_CrossoverCut
  \/ GA_CrossoverRaises
  \/ GA_Mutation
  \/ GA_Replace
  \/ GA_Return

SpecGA == InitGA /\ [][NextGA]_vars

-----------------------------------------------------------------------------
(* Hybrid algorithm (hybrid_algorithm.py) *)

\* the instances the hybrid is run on: those of the GA with a single slot
HybridInstances ==
  LET two == CourseIds(2)
      one == CourseIds(1)
      slots == <<"s1">>
  IN { \* two courses in one room and one slot; they share teacher t1 when c1
       \* takes t1, and mentor t2 has the four students of g1 when teaching c1
       MkData(two, [c \in Range(two) |-> IF c = "c1" THEN <<"t1", "t2">> ELSE <<"t1">>],
              [c \in Range(two) |-> <<"r1">>],
              [c \in Range(two) |-> IF c = "c1" THEN <<"g1">> ELSE <<>>], {"t2"},
              [g \in Range(GroupIds) |-> IF g = "g1" THEN {"c1"} ELSE {}], slots),
       \* a single course
       MkData(one, [c \in Range(one) |-> <<"t1", "t2">>], [c \in Range(one) |-> <<"r1">>],
              [c \in Range(one) |-> <<"g1">>], {"t2"},
              [g \in Range(GroupIds) |-> IF g = "g1" THEN {"c1"} ELSE {}], slots) }

\* the parameter sets explored; local_search_probability lies strictly
\* between 0 and 1, so random.random() < local_search_probability can go
\* either way; convergence_threshold is threshold_num / threshold_den
HybridParamSets ==
  { [sa_iterations_per_generation |-> SAIterationsPerGeneration,
     threshold_num |-> 1, threshold_den |-> 1000,
     max_stagnation_generations |-> 1] }

\* _check_convergence looks at the last ten entries of the history
HistoryWindow == 10

\* the ga_params of a run long enough for _check_convergence to see
\* HistoryWindow generations and to stop the loop before the last one; every
\* member is an elite, so no child is bred
HybridLongRunParamSets ==
  { [population_size |-> PopulationSize, generations |-> HistoryWindow + 2,
     tournament_size |-> 2, elitism_count |-> PopulationSize] }

\* the sa_params handed to every temporary SimulatedAnnealing
HybridSAParamSets ==
  { [initial_temperature |-> 4, final_temperature |-> 1,
     cooling_num |-> 1, cooling_den |-> 2, max_iterations |-> MaxIterations] }

Min(a, b) == IF a <= b THEN a ELSE b

\* _check_convergence comparing the latest value with the first one recorded
check_convergence_from_start(history, stagnation, hp) ==
  IF Len(history) >= HistoryWindow
  THEN LET last == history[Len(history)]
           old == history[1]
           below == IF old # 0
                    THEN Abs(last - old) * hp.threshold_den < hp.threshold_num * Abs(old)
                    ELSE 0 < hp.threshold_num
           count == IF below THEN stagnation + 1 ELSE 0
       IN <<count, count >= hp.max_stagnation_generations>>
  ELSE <<stagnation, FALSE>>

\* _check_convergence without the wait for HistoryWindow entries: a shorter
\* history is compared with its first entry
check_convergence_no_window(history, stagnation, hp) ==
  IF Len(history) >= 1
  THEN LET last == history[Len(history)]
           old == IF Len(history) >= HistoryWindow
                  THEN history[Len(history) - HistoryWindow + 1] ELSE history[1]
           below == IF old # 0
                    THEN Abs(last - old) * hp.threshold_den < hp.threshold_num * Abs(old)
                    ELSE 0 < hp.threshold_num
           count == IF below THEN stagnation + 1 ELSE 0
       IN <<count, count >= hp.max_stagnation_generations>>
  ELSE <<stagnation, FALSE>>

\* _check_convergence: <<the new stagnation_count, the value returned>>
check_convergence(history, stagnation, hp) ==
  IF Len(history) >= HistoryWindow
  THEN LET last == history[Len(history)]
           old == history[Len(history) - HistoryWindow + 1]
           below == IF old # 0
                    THEN Abs(last - old) * hp.threshold_den < hp.threshold_num * Abs(old)
                    ELSE 0 < hp.threshold_num
           count == IF below THEN stagnation + 1 ELSE 0
       IN <<count, count >= hp.max_stagnation_generations>>
  ELSE <<stagnation, FALSE>>

\* _apply_sa_to_solution(solution), up to its loop: the temporary SA starts
\* from two shallow copies of `solution`
BeginAnnealing(h, newpop, ch, solution, target) ==
  /\ Store(h, ga_best_solution, population, newpop, ch,
           ShallowCopy(solution), ShallowCopy(solution), EmptyDict)
  /\ current_cost' = CostOf(data, h, solution)
  /\ best_cost' = CostOf(data, h, solution)
  /\ start_cost' = CostOf(data, h, solution)
  /\ temperature' = <<sa_params.initial_temperature, 1>>
  /\ neighbor_cost' = 0
  /\ accepted_costs' = {}
  /\ sa_left' = hybrid_params.sa_iterations_per_generation
  /\ sa_target' = target
  /\ pc' = "hy_sa_loop"
  /\ UNCHANGED <<sa_params, iteration>>

\* _apply_sa_to_solution returns: the temporary SA is dropped
EndAnnealing ==
  /\ current_cost' = 0
  /\ best_cost' = 0
  /\ start_cost' = 0
  /\ temperature' = <<0, 1>>
  /\ neighbor_cost' = 0
  /\ accepted_costs' = {}
  /\ sa_target' = "none"
  /\ UNCHANGED <<sa_params, iteration, sa_left>>

\* HybridAlgorithm.__init__ and the first statement of run()
InitHybrid ==
  /\ data \in HybridInstances
  /\ \/ ga_params \in GAParamSets
     \/ /\ ga_params \in HybridLongRunParamSets
        /\ Len(data.course_ids) = 1
  /\ sa_params \in HybridSAParamSets
  /\ hybrid_params \in HybridParamSets
  /\ Assignable(data) = Courses(data)
  /\ pc = "hy_evaluate"
  /\ heap \in FreshHeaps(data, ga_params.population_size)
  /\ population = FreshPopulation(data, ga_params.population_size)
  /\ ga_best_solution = <<>>
  /\ best_fitness = NegInf
  /\ generation = 0
  /\ fitness_values = <<>>
  /\ new_population = <<>>
  /\ parent1 = 0
  /\ parent2 = 0
  /\ child = EmptyDict
  /\ recombined = FALSE
  /\ elite_snapshot = <<>>
  /\ best_fitness_history = <<>>
  /\ stagnation_count = 0
  /\ sorted_indices = <<>>
  /\ elite_index = 0
  /\ sa_left = 0
  /\ sa_target = "none"
  /\ current_solution = EmptyDict
  /\ best_solution = EmptyDict
  /\ neighbor = EmptyDict
  /\ current_cost = 0
  /\ best_cost = 0
  /\ start_cost = 0
  /\ temperature = <<0, 1>>
  /\ iteration = 0
  /\ neighbor_cost = 0
  /\ accepted_costs = {}
  /\ result = <<>>
  /\ EvalIdle
  /\ CPIdle

\* run(): evaluation, best solution, fitness history, argsort
HY_Evaluate ==
  /\ pc = "hy_evaluate"
  /\ generation < ga_params.generations
  /\ EvaluateStep
  /\ best_fitness_history' = Append(best_fitness_history, best_fitness')
  /\ sorted_indices' \in SortedIndices(fitness_values')
  /\ elite_index' = 0
  /\ pc' = "hy_elite"
  /\ UNCHANGED <<data, result, evVars, saCore, cpVars, ga_params, generation, parent1,
                 parent2, recombined, elite_snapshot, hybrid_params, stagnation_count,
                 sa_left, sa_target>>

\* run(), elitism loop: the elite's copy goes to new_population as it is
HY_EliteKeep ==
  /\ pc = "hy_elite"
  /\ elite_index < Min(ga_params.elitism_count, Len(population))
  /\ Store(heap, ga_best_solution, population,
           Append(new_population, ShallowCopy(population[sorted_indices[elite_index + 1]])),
           child, current_solution, best_solution, neighbor)
  /\ elite_index' = elite_index + 1
  /\ pc' = "hy_elite"
  /\ UNCHANGED <<data, result, evVars, saCore, cpVars, gaCore, hybrid_params,
                 best_fitness_history, stagnation_count, sorted_indices, sa_left,
                 sa_target>>

\* run(), elitism loop: the elite's copy is handed to _apply_sa_to_solution
HY_EliteAnneal ==
  /\ pc = "hy_elite"
  /\ elite_index < Min(ga_params.elitism_count, Len(population))
  /\ BeginAnnealing(heap, new_population, child,
                    ShallowCopy(population[sorted_indices[elite_index + 1]]), "elite")
  /\ UNCHANGED <<data, result, evVars, cpVars, gaCore, hybrid_params,
                 best_fitness_history, stagnation_count, sorted_indices, elite_index>>

\* run(): the elitism loop is over
HY_ElitesDone ==
  /\ pc = "hy_elite"
  /\ elite_index >= Min(ga_params.elitism_count, Len(population))
  /\ pc' = "ga_breed"
  /\ UNCHANGED <<data, result, evVars, heap, saSols, saCore, gaSols, gaCore, hyVars,
                 cpVars>>

\* run(): child = self.ga._mutation(child), and the child is appended as it is
HY_MutateKeep ==
  /\ pc = "ga_mutation"
  /\ hybrid_params # <<>>
  /\ \E h \in MutatedHeaps(data, heap, child) :
       Store(h, ga_best_solution, population, Append(new_population, child),
             EmptyDict, current_solution, best_solution, neighbor)
  /\ parent1' = 0
  /\ parent2' = 0
  /\ pc' = "ga_breed"
  /\ UNCHANGED <<data, result, evVars, saCore, hyVars, cpVars, ga_params, best_fitness,
                 generation, fitness_values, recombined, elite_snapshot>>

\* run(): child = self.ga._mutation(child), and the child is handed to
\* _apply_sa_to_solution
HY_MutateAnneal ==
  /\ pc = "ga_mutation"
  /\ hybrid_params # <<>>
  /\ \E h \in MutatedHeaps(data, heap, child) :
       BeginAnnealing(h, new_population, child, child, "child")
  /\ UNCHANGED <<data, result, evVars, cpVars, gaCore, hybrid_params,
                 best_fitness_history, stagnation_count, sorted_indices, elite_index>>

\* _apply_sa_to_solution, one iteration, first half
HY_SA_GenerateNeighbor ==
  /\ pc = "hy_sa_loop"
  /\ sa_left > 0
  /\ GenerateNeighborStep
  /\ pc' = "hy_sa_accept"
  /\ UNCHANGED <<data, result, evVars, gaSols, gaCore, hyVars, cpVars>>

\* _apply_sa_to_solution, one iteration, second half
HY_SA_Accept ==
  /\ pc = "hy_sa_accept"
  /\ AcceptStep
  /\ sa_left' = sa_left - 1
  /\ pc' = "hy_sa_loop"
  /\ UNCHANGED <<data, result, evVars, gaSols, gaCore, cpVars, iteration, hybrid_params,
                 best_fitness_history, stagnation_count, sorted_indices, elite_index,
                 sa_target>>

\* _apply_sa_to_solution returns sa.best_solution to the elitism loop
HY_SA_ReturnElite ==
  /\ pc = "hy_sa_loop"
  /\ sa_left = 0
  /\ sa_target = "elite"
  /\ Store(heap, ga_best_solution, population, Append(new_population, best_solution),
           child, EmptyDict, EmptyDict, EmptyDict)
  /\ EndAnnealing
  /\ elite_index' = elite_index + 1
  /\ pc' = "hy_elite"
  /\ UNCHANGED <<data, result, evVars, cpVars, gaCore, hybrid_params,
                 best_fitness_history, stagnation_count, sorted_indices>>

\* _apply_sa_to_solution returns sa.best_solution to the breeding loop
HY_SA_ReturnChild ==
  /\ pc = "hy_sa_loop"
  /\ sa_left = 0
  /\ sa_target = "child"
  /\ Store(heap, ga_best_solution, population, Append(new_population, best_solution),
           EmptyDict, EmptyDict, EmptyDict, EmptyDict)
  /\ EndAnnealing
  /\ parent1' = 0
  /\ parent2' = 0
  /\ pc' = "ga_breed"
  /\ UNCHANGED <<data, result, evVars, cpVars, ga_params, best_fitness, generation,
                 fitness_values, recombined, elite_snapshot, hybrid_params,
                 best_fitness_history, stagnation_count, sorted_indices, elite_index>>

\* run() returning ga.best_solution at once when _check_convergence says so
HY_ReplaceReturnsOnConvergence ==
  /\ pc = "ga_breed"
  /\ hybrid_params # <<>>
  /\ Len(new_population) >= ga_params.population_size
  /\ Store(heap, ga_best_solution, new_population, <<>>, child,
           current_solution, best_solution, neighbor)
  /\ LET conv == check_convergence(best_fitness_history, stagnation_count,
                                   hybrid_params)
     IN /\ stagnation_count' = conv[1]
        /\ generation' = IF conv[2] THEN generation ELSE generation + 1
        /\ pc' = IF conv[2] THEN "hy_done"
                 ELSE IF generation + 1 >= ga_params.generations
                      THEN "hy_final" ELSE "hy_evaluate"
        /\ result' = IF conv[2] THEN <<ga_best_solution'[1]>> ELSE result
  /\ UNCHANGED <<data, evVars, saCore, cpVars, ga_params, best_fitness,
                 fitness_values, parent1, parent2, recombined, elite_snapshot,
                 hybrid_params, best_fitness_history, sorted_indices, elite_index,
                 sa_left, sa_target>>

\* run(): self.ga.population = new_population, the convergence check, and
\* the next generation or the end of the loop
HY_Replace ==
  /\ pc = "ga_breed"
  /\ hybrid_params # <<>>
  /\ Len(new_population) >= ga_params.population_size
  /\ Store(heap, ga_best_solution, new_population, <<>>, child,
           current_solution, best_solution, neighbor)
  /\ LET conv == check_convergence(best_fitness_history, stagnation_count,
                                   hybrid_params)
     IN /\ stagnation_count' = conv[1]
        /\ generation' = IF conv[2] THEN generation ELSE generation + 1
        /\ pc' = IF conv[2] \/ generation + 1 >= ga_params.generations
                 THEN "hy_final" ELSE "hy_evaluate"
  /\ UNCHANGED <<data, result, evVars, saCore, cpVars, ga_params, best_fitness,
                 fitness_values, parent1, parent2, recombined, elite_snapshot,
                 hybrid_params, best_fitness_history, sorted_indices, elite_index,
                 sa_left, sa_target>>

\* run(): final_solution = self._apply_sa_to_solution(self.ga.best_solution)
HY_Final ==
  /\ pc = "hy_final"
  /\ ga_best_solution # <<>>
  /\ BeginAnnealing(heap, new_population, child, ga_best_solution[1], "final")
  /\ UNCHANGED <<data, result, evVars, cpVars, gaCore, hybrid_params,
                 best_fitness_history, stagnation_count, sorted_indices, elite_index>>

\* run(): return final_solution
HY_SA_ReturnFinal ==
  /\ pc = "hy_sa_loop"
  /\ sa_left = 0
  /\ sa_target = "final"
  /\ result' = <<best_solution>>
  /\ pc' = "hy_done"
  /\ UNCHANGED <<data, evVars, heap, saSols, saCore, gaSols, gaCore, hyVars, cpVars>>

NextHybrid ==
  \/ HY_Evaluate
  \/ HY_EliteKeep
  \/ HY_EliteAnneal
  \/ HY_ElitesDone
  \/ GA_Selection
  \/ GA_CrossoverCopy
  \/ GA_CrossoverCut
  \/ GA_CrossoverRaises
  \/ HY_MutateKeep
  \/ HY_MutateAnneal
  \/ HY_SA_GenerateNeighbor
  \/ HY_SA_Accept
  \/ HY_SA_ReturnElite
  \/ HY_SA_ReturnChild
  \/ HY_Replace
  \/ HY_Final
  \/ HY_SA_ReturnFinal

SpecHybrid == InitHybrid /\ [][NextHybrid]_vars

-----------------------------------------------------------------------------
(* HybridAlgorithm._check_convergence on its own: the histories run() can  *)
(* have recorded, longer than the runs above reach.  ga.best_fitness only  *)
(* ever grows and a fitness is minus a sum of penalties, so a history is   *)
(* non-decreasing and never above 0.                                       *)

\* the longest history recorded
MaxHistory == 11

\* the best-fitness values recorded
FitnessLevels == {-300, -200, -100, 0}

\* the non-decreasing histories of length n
Histories(n) ==
  {h \in [1..n -> FitnessLevels] : \A i \in 1..(n - 1) : h[i] <= h[i + 1]}

\* convergence_threshold 0.001 with one stagnant generation allowed, and 0.5
\* with two
ConvergenceParamSets ==
  { [sa_iterations_per_generation |-> SAIterationsPerGeneration,
     threshold_num |-> 1, threshold_den |-> 1000,
     max_stagnation_generations |-> 1],
    [sa_iterations_per_generation |-> SAIterationsPerGeneration,
     threshold_num |-> 1, threshold_den |-> 2,
     max_stagnation_generations |-> 2] }

\* run() just before a call of _check_convergence, in a generation where the
\* history has HistoryWindow - 1 or HistoryWindow entries
InitConvergence ==
  /\ data \in HybridInstances
  /\ hybrid_params \in ConvergenceParamSets
  /\ best_fitness_history \in Histories(HistoryWindow - 1) \cup Histories(HistoryWindow)
  /\ stagnation_count \in 0..1
  /\ stagnation_count < hybrid_params.max_stagnation_generations
  /\ (Len(best_fitness_history) < HistoryWindow => stagnation_count = 0)
  /\ pc = "cv_ready"
  /\ result = <<>>
  /\ heap = <<>>
  /\ sorted_indices = <<>>
  /\ elite_index = 0
  /\ sa_left = 0
  /\ sa_target = "none"
  /\ EvalIdle
  /\ SAIdle
  /\ GAIdle
  /\ CPIdle

\* _check_convergence
CV_Check ==
  /\ pc = "cv_ready"
  /\ LET conv == check_convergence(best_fitness_history, stagnation_count,
                                   hybrid_params)
     IN /\ stagnation_count' = conv[1]
        /\ result' = <<conv[2]>>
  /\ pc' = "cv_done"
  /\ UNCHANGED <<data, evVars, heap, saSols, saCore, gaSols, gaCore, cpVars,
                 hybrid_params, best_fitness_history, sorted_indices, elite_index,
                 sa_left, sa_target>>

\* run(): _check_convergence returned False, the next generation records its
\* best fitness
CV_Record ==
  /\ pc = "cv_done"
  /\ result = <<FALSE>>
  /\ Len(best_fitness_history) < MaxHistory
  /\ \E f \in FitnessLevels :
       /\ best_fitness_history = <<>> \/ f >= best_fitness_history[Len(best_fitness_history)]
       /\ best_fitness_history' = Append(best_fitness_history, f)
  /\ pc' = "cv_ready"
  /\ UNCHANGED <<data, result, evVars, heap, saSols, saCore, gaSols, gaCore, cpVars,
                 hybrid_params, stagnation_count, sorted_indices, elite_index,
                 sa_left, sa_target>>

NextConvergence ==
  \/ CV_Check
  \/ CV_Record

SpecConvergence == InitConvergence /\ [][NextConvergence]_vars

-----------------------------------------------------------------------------
(* Constraint programming (constraint_programming.py).  Its solutions are   *)
(* dicts whose inner dicts are never written after creation, so they are    *)
(* held as functions from course id to assignment record.                   *)

\* run() tries the backtracking search up to this number of courses
BacktrackLimit == 20

\* the instances CP is run on
CPInstances ==
  LET two == CourseIds(2)
      three == CourseIds(3)
      none == [g \in Range(GroupIds) |-> {}]
  IN { \* both courses serve g1: they need different slots
       MkData(two, [c \in Range(two) |-> IF c = "c1" THEN <<"t1", "t2">> ELSE <<"t1">>],
              [c \in Range(two) |-> <<"r1">>], [c \in Range(two) |-> <<"g1">>], {},
              [g \in Range(GroupIds) |-> IF g = "g1" THEN Range(two) ELSE {}],
              <<"s1", "s2">>),
       \* the same with a single slot: no complete timetable exists
       MkData(two, [c \in Range(two) |-> IF c = "c1" THEN <<"t1", "t2">> ELSE <<"t1">>],
              [c \in Range(two) |-> <<"r1">>], [c \in Range(two) |-> <<"g1">>], {},
              [g \in Range(GroupIds) |-> IF g = "g1" THEN Range(two) ELSE {}],
              <<"s1">>),
       \* one slot, no groups: the first choice for c1 (t1, r1) leaves nothing
       \* for c2 and has to be undone
       MkData(two, [c \in Range(two) |-> IF c = "c1" THEN <<"t1", "t2">> ELSE <<"t1">>],
              [c \in Range(two) |-> IF c = "c1" THEN <<"r1">> ELSE <<"r1", "r2">>],
              [c \in Range(two) |-> <<>>], {}, none, <<"s1">>),
       \* three courses, two slots, c3 without an eligible teacher
       MkData(three, [c \in Range(three) |-> IF c = "c3" THEN <<>> ELSE <<"t1", "t2">>],
              [c \in Range(three) |-> <<"r1">>], [c \in Range(three) |-> <<>>], {},
              none, <<"s1", "s2">>),
       \* no course at all
       MkData(<<>>, <<>>, <<>>, <<>>, {}, none, <<"s1">>),
       \* a single course, without an eligible teacher
       MkData(CourseIds(1), [c \in Range(CourseIds(1)) |-> <<>>],
              [c \in Range(CourseIds(1)) |-> <<"r1">>],
              [c \in Range(CourseIds(1)) |-> <<>>], {}, none, <<"s1">>),
       \* one course more than run() hands to the backtracking search; all of
       \* them want teacher t1 in room r1 in the only slot
       MkData(CourseIds(BacktrackLimit + 1),
              [c \in Range(CourseIds(BacktrackLimit + 1)) |-> <<"t1">>],
              [c \in Range(CourseIds(BacktrackLimit + 1)) |-> <<"r1">>],
              [c \in Range(CourseIds(BacktrackLimit + 1)) |-> <<>>], {}, none,
              <<"s1">>) }

\* the parameter sets explored
CPParamSets ==
  { [max_iterations |-> CPMaxIterations, max_unassigned |-> 0],
    [max_iterations |-> CPMaxIterations, max_unassigned |-> 1] }

\* a check that forgets the rooms
check_constraints_no_room(d, sol, c, t, r, s) ==
  /\ ~\E e \in DOMAIN sol : sol[e].teacher_id = t /\ sol[e].time_slot_id = s
  /\ ~\E g \in Range(d.student_groups[c]) : \E e \in DOMAIN sol :
        /\ g \in Range(d.student_groups[e])
        /\ sol[e].time_slot_id = s

\* _check_constraints(solution, course_id, teacher_id, room_id, time_slot_id)
check_constraints(d, sol, c, t, r, s) ==
  /\ ~\E e \in DOMAIN sol : sol[e].teacher_id = t /\ sol[e].time_slot_id = s
  /\ ~\E e \in DOMAIN sol : sol[e].room_id = r /\ sol[e].time_slot_id = s
  /\ ~\E g \in Range(d.student_groups[c]) : \E e \in DOMAIN sol :
        /\ g \in Range(d.student_groups[e])
        /\ sol[e].time_slot_id = s

\* loops that stop after the first eligible teacher
TriplesFirstTeacher(d, c) ==
  LET ts == IF d.eligible_teachers[c] = <<>> THEN <<>>
            ELSE <<d.eligible_teachers[c][1]>>
      rs == d.preferred_rooms[c]
      ss == d.slot_ids
  IN [j \in 1..(Len(ts) * Len(rs) * Len(ss)) |->
        Assignment(ts[1], rs[((j - 1) \div Len(ss)) + 1], ss[((j - 1) % Len(ss)) + 1])]

\* the triples of the three nested loops over eligible_teachers,
\* preferred_rooms and time_slots, in the order the loops visit them
Triples(d, c) ==
  LET ts == d.eligible_teachers[c]
      rs == d.preferred_rooms[c]
      ss == d.slot_ids
  IN [j \in 1..(Len(ts) * Len(rs) * Len(ss)) |->
        Assignment(ts[((j - 1) \div (Len(rs) * Len(ss))) + 1],
                   rs[(((j - 1) \div Len(ss)) % Len(rs)) + 1],
                   ss[((j - 1) % Len(ss)) + 1])]

\* the list `assignments` of _iterative_forward_checking for course c
ValidAssignments(d, sol, c) ==
  {a \in Range(Triples(d, c)) :
     check_constraints(d, sol, c, a.teacher_id, a.room_id, a.time_slot_id)}

\* the sort key of _backtracking_search
SortKey(d, c) == Len(d.eligible_teachers[c]) * Len(d.preferred_rooms[c])

RECURSIVE SortedCoursesDescending(_, _)
\* a sort that puts the courses with the most combinations first
SortedCoursesDescending(d, cids) ==
  IF cids = <<>> THEN <<>>
  ELSE LET rest == SortedCoursesDescending(d, SubSeq(cids, 1, Len(cids) - 1))
           last == cids[Len(cids)]
           keep == {i \in 1..Len(rest) : SortKey(d, rest[i]) >= SortKey(d, last)}
           n == Cardinality(keep)
       IN SubSeq(rest, 1, n) \o <<last>> \o SubSeq(rest, n + 1, Len(rest))

RECURSIVE SortedCourses(_, _)
\* list.sort(key=...) of the course ids: ascending and stable
SortedCourses(d, cids) ==
  IF cids = <<>> THEN <<>>
  ELSE LET rest == SortedCourses(d, SubSeq(cids, 1, Len(cids) - 1))
           last == cids[Len(cids)]
           keep == {i \in 1..Len(rest) : SortKey(d, rest[i]) <= SortKey(d, last)}
           n == Cardinality(keep)
       IN SubSeq(rest, 1, n) \o <<last>> \o SubSeq(rest, n + 1, Len(rest))

\* sol with the entry of course c removed (del solution[course_id])
Without(sol, c) == [e \in (DOMAIN sol) \ {c} |-> sol[e]]

\* sol with course c set to a
With(sol, c, a) == [e \in (DOMAIN sol) \cup {c} |-> IF e = c THEN a ELSE sol[e]]

\* the first statements of _iterative_forward_checking
EnterForwardChecking ==
  /\ cp_best_solution' = EmptyDict
  /\ cp_best_unassigned' = Len(data.course_ids)
  /\ cp_iteration' = 0
  /\ cp_position' = 0
  /\ cp_solution' = EmptyDict
  /\ cp_unassigned' = <<>>
  /\ cp_stack' = <<>>
  /\ cp_modes' = Append(cp_modes, "forward")
  /\ cp_passes' = <<>>
  /\ pc' = "cp_forward"

\* ConstraintProgramming.__init__ and run() up to the call of _backtrack
InitCP ==
  /\ data \in CPInstances
  /\ cp_params \in CPParamSets
  /\ cp_solution = EmptyDict
  /\ cp_iteration = 0
  /\ cp_position = 0
  /\ cp_unassigned = <<>>
  /\ cp_best_solution = EmptyDict
  /\ cp_passes = <<>>
  /\ IF Len(data.course_ids) <= BacktrackLimit
     THEN /\ pc = "cp_backtrack"
          /\ cp_order = SortedCourses(data, data.course_ids)
          /\ cp_stack = <<1>>
          /\ cp_best_unassigned = 0
          /\ cp_modes = <<"backtracking">>
     ELSE /\ pc = "cp_forward"
          /\ cp_order = <<>>
          /\ cp_stack = <<>>
          /\ cp_best_unassigned = Len(data.course_ids)
          /\ cp_modes = <<"forward">>
  /\ heap = <<>>
  /\ result = <<>>
  /\ EvalIdle
  /\ SAIdle
  /\ GAIdle
  /\ HybridIdle

\* _backtrack, one pass of the innermost loop: the innermost call tries the
\* triple it is at; if the check passes it assigns the course and calls
\* _backtrack for the rest
CP_Try ==
  /\ pc = "cp_backtrack"
  /\ Len(cp_stack) <= Len(cp_order)
  /\ LET depth == Len(cp_stack)
         course_id == cp_order[depth]
         j == cp_stack[depth]
         a == Triples(data, course_id)[j]
     IN /\ j <= Len(Triples(data, course_id))
        /\ IF check_constraints(data, cp_solution, course_id, a.teacher_id, a.room_id,
                                a.time_slot_id)
           THEN /\ cp_solution' = With(cp_solution, course_id, a)
                /\ cp_stack' = Append(cp_stack, 1)
           ELSE /\ cp_stack' = [cp_stack EXCEPT ![depth] = j + 1]
                /\ UNCHANGED cp_solution
  /\ UNCHANGED <<data, pc, result, evVars, heap, saSols, saCore, gaSols, gaCore, hyVars,
                 cp_params, cp_order, cp_iteration, cp_position, cp_unassigned,
                 cp_best_solution, cp_best_unassigned, cp_modes, cp_passes>>

\* _backtrack undoing an assignment by deleting the course from self.courses
\* as well
CP_UndoDeletesCourse ==
  /\ pc = "cp_backtrack"
  /\ Len(cp_stack) <= Len(cp_order)
  /\ Len(cp_stack) > 1
  /\ LET depth == Len(cp_stack)
     IN /\ cp_stack[depth] > Len(Triples(data, cp_order[depth]))
        /\ cp_solution' = Without(cp_solution, cp_order[depth - 1])
        /\ data' = [data EXCEPT !.course_ids =
                                  SelectSeq(@, LAMBDA c : c # cp_order[depth - 1])]
        /\ cp_stack' = [SubSeq(cp_stack, 1, depth - 1)
                          EXCEPT ![depth - 1] = cp_stack[depth - 1] + 1]
  /\ UNCHANGED <<pc, result, evVars, heap, saSols, saCore, gaSols, gaCore, hyVars,
                 cp_params, cp_order, cp_iteration, cp_position, cp_unassigned,
                 cp_best_solution, cp_best_unassigned, cp_modes, cp_passes>>

\* _backtrack: the loops of the innermost call are over and it returns None;
\* its caller undoes its assignment and moves on
CP_Undo ==
  /\ pc = "cp_backtrack"
  /\ Len(cp_stack) <= Len(cp_order)
  /\ Len(cp_stack) > 1
  /\ LET depth == Len(cp_stack)
     IN /\ cp_stack[depth] > Len(Triples(data, cp_order[depth]))
        /\ cp_solution' = Without(cp_solution, cp_order[depth - 1])
        /\ cp_stack' = [SubSeq(cp_stack, 1, depth - 1)
                          EXCEPT ![depth - 1] = cp_stack[depth - 1] + 1]
  /\ UNCHANGED <<data, pc, result, evVars, heap, saSols, saCore, gaSols, gaCore, hyVars,
                 cp_params, cp_order, cp_iteration, cp_position, cp_unassigned,
                 cp_best_solution, cp_best_unassigned, cp_modes, cp_passes>>

\* _backtrack: the outermost call returns None, or the search returns an
\* empty dict (no course): run() goes on to _iterative_forward_checking
CP_SearchFails ==
  /\ pc = "cp_backtrack"
  /\ \/ /\ Len(cp_stack) = 1
        /\ cp_order # <<>>
        /\ cp_stack[1] > Len(Triples(data, cp_order[1]))
     \/ cp_order = <<>>
  /\ EnterForwardChecking
  /\ UNCHANGED <<data, result, evVars, heap, saSols, saCore, gaSols, gaCore, hyVars,
                 cp_params, cp_order>>

\* _backtrack: no course is left, the solution is returned through every
\* call and by run()
CP_SearchReturns ==
  /\ pc = "cp_backtrack"
  /\ cp_order # <<>>
  /\ Len(cp_stack) = Len(cp_order) + 1
  /\ result' = <<cp_solution>>
  /\ pc' = "cp_done"
  /\ UNCHANGED <<data, evVars, heap, saSols, saCore, gaSols, gaCore, hyVars, cpVars>>

\* _iterative_forward_checking, one course of a pass: a random valid
\* assignment, or the course joins `unassigned`
CP_ForwardAssign ==
  /\ pc = "cp_forward"
  /\ cp_iteration < cp_params.max_iterations
  /\ cp_position < Len(data.course_ids)
  /\ LET course_id == data.course_ids[cp_position + 1]
         assignments == ValidAssignments(data, cp_solution, course_id)
     IN IF assignments # {}
        THEN /\ \E a \in assignments : cp_solution' = With(cp_solution, course_id, a)
             /\ UNCHANGED cp_unassigned
        ELSE /\ cp_unassigned' = Append(cp_unassigned, course_id)
             /\ UNCHANGED cp_solution
  /\ cp_position' = cp_position + 1
  /\ UNCHANGED <<data, pc, result, evVars, heap, saSols, saCore, gaSols, gaCore, hyVars,
                 cp_params, cp_order, cp_stack, cp_iteration, cp_best_solution,
                 cp_best_unassigned, cp_modes, cp_passes>>

\* _iterative_forward_checking, the end of a pass: the best solution is
\* updated; the loop goes on, or breaks and best_solution is returned
CP_PassEnd ==
  /\ pc = "cp_forward"
  /\ cp_iteration < cp_params.max_iterations
  /\ cp_position = Len(data.course_ids)
  /\ LET better == Len(cp_unassigned) < cp_best_unassigned
         stop == better /\ Len(cp_unassigned) <= cp_params.max_unassigned
     IN /\ cp_best_solution' = IF better THEN cp_solution ELSE cp_best_solution
        /\ cp_best_unassigned' = IF better THEN Len(cp_unassigned)
                                 ELSE cp_best_unassigned
        /\ IF stop
           THEN /\ result' = <<cp_best_solution'>>
                /\ pc' = "cp_done"
                /\ UNCHANGED <<cp_iteration, cp_position, cp_solution, cp_unassigned>>
           ELSE /\ cp_iteration' = cp_iteration + 1
                /\ cp_position' = 0
                /\ cp_solution' = EmptyDict
                /\ cp_unassigned' = <<>>
                /\ UNCHANGED <<pc, result>>
  /\ cp_passes' = Append(cp_passes, [solution |-> cp_solution,
                                       unassigned |-> Len(cp_unassigned)])
  /\ UNCHANGED <<data, evVars, heap, saSols, saCore, gaSols, gaCore, hyVars, cp_params,
                 cp_order, cp_stack, cp_modes>>

\* _iterative_forward_checking: the iterations are used up, best_solution is
\* returned
CP_ForwardReturn ==
  /\ pc = "cp_forward"
  /\ cp_iteration >= cp_params.max_iterations
  /\ result' = <<cp_best_solution>>
  /\ pc' = "cp_done"
  /\ UNCHANGED <<data, evVars, heap, saSols, saCore, gaSols, gaCore, hyVars, cpVars>>

NextCP ==
  \/ CP_Try
  \/ CP_Undo
  \/ CP_SearchFails
  \/ CP_SearchReturns
  \/ CP_ForwardAssign
  \/ CP_PassEnd
  \/ CP_ForwardReturn

SpecCP == InitCP /\ [][NextCP]_vars

-----------------------------------------------------------------------------
(* Every strategy: a run of any one of them *)

Init == InitEval \/ InitSA \/ InitGA \/ InitHybrid \/ InitCP

Next == NextEval \/ NextSA \/ NextGA \/ NextHybrid \/ NextCP

Spec == Init /\ [][Next]_vars

-----------------------------------------------------------------------------
(* Claims about SimulatedAnnealing.run (checked under SpecSA) *)

RECURSIVE Power(_, _)
Power(b, n) == IF n = 0 THEN 1 ELSE b * Power(b, n - 1)

\* C5: best_cost never increases from one step of run() to the next, and it
\* is at most every current_cost recorded at an accepted step so far.
C5_BestCostNonIncreasing ==
  [][/\ best_cost' <= best_cost
     /\ \A a \in accepted_costs' : best_cost' <= a]_vars

\* C5 witness: after two iterations with two different accepted costs, the
\* last accepted move was a worsening one (current_cost above best_cost)
C5_Witness ==
  /\ pc = "sa_loop"
  /\ iteration >= 2
  /\ Cardinality(accepted_costs) >= 2
  /\ best_cost < current_cost

\* C6 (as stated): run() iterates only while temperature > final_temperature
\* and iteration < max_iterations, cools exactly once per iteration, never
\* exceeds max_iterations iterations, and ends by returning best_solution.
C6_RunBoundedReturnsBest ==
  /\ iteration <= sa_params.max_iterations
  /\ temperature = <<sa_params.initial_temperature
                       * Power(sa_params.cooling_num, iteration),
                     Power(sa_params.cooling_den, iteration)>>
  /\ pc = "sa_accept" =>
       /\ temperature[1] > sa_params.final_temperature * temperature[2]
       /\ iteration < sa_params.max_iterations
  /\ pc = "sa_done" => result = <<best_solution>>
  /\ pc \in {"sa_loop", "sa_accept", "sa_done"}

\* the part of C6 that every run satisfies: the loop bound and the cooling
\* schedule, and a run that raises does so before its first cooling step
SA_LoopBounded ==
  /\ iteration <= sa_params.max_iterations
  /\ temperature = <<sa_params.initial_temperature
                       * Power(sa_params.cooling_num, iteration),
                     Power(sa_params.cooling_den, iteration)>>
  /\ pc = "sa_done" => result = <<best_solution>>
  /\ pc = "sa_raised" => iteration = 0 /\ DOMAIN current_solution = {}

-----------------------------------------------------------------------------
(* Claims about GeneticAlgorithm (checked under SpecGA) *)

\* C7: right after _crossover, if it took the cut branch (two or more
\* courses) the child has the parents' course set and there is a cut c with
\* 1 <= c <= num_courses - 1 such that the courses before the cut carry
\* parent 1's assignments and the others parent 2's; if it did not, the child
\* equals parent 1.
C7_CrossoverSplitsAtCut ==
  pc = "ga_mutation" =>
    LET cids == data.course_ids
        n == Len(cids)
        p1 == Deref(heap, population[parent1])
        p2 == Deref(heap, population[parent2])
        ch == Deref(heap, child)
    IN IF recombined
       THEN /\ n >= 2
            /\ DOMAIN ch = DOMAIN p1
            /\ DOMAIN ch = DOMAIN p2
            /\ \E c \in 1..(n - 1) :
                 \A i \in 1..n :
                   ch[cids[i]] = IF i <= c THEN p1[cids[i]] ELSE p2[cids[i]]
       ELSE ch = p1

\* C7 witness: a child cut from two parents that differs from both
C7_Witness ==
  /\ pc = "ga_mutation"
  /\ recombined
  /\ Deref(heap, child) # Deref(heap, population[parent1])
  /\ Deref(heap, child) # Deref(heap, population[parent2])

\* C8 (as stated): when the next generation is about to be evaluated, its
\* first elitism_count members hold the assignments the elites had when they
\* were picked, and its best fitness is at least every fitness of the
\* generation before.
C8_ElitesPassUnchanged ==
  (pc = "ga_evaluate" /\ generation >= 1 /\ generation < ga_params.generations) =>
    /\ \A i \in 1..ga_params.elitism_count :
         Deref(heap, population[i]) = elite_snapshot[i]
    /\ \A j \in 1..Len(fitness_values) :
         \E i \in 1..Len(population) :
           FitnessOf(data, heap, population[i]) >= fitness_values[j]

\* C9 (as stated): a _crossover or _mutation step changes the assignments of
\* no member of the population, of no solution already in the new population
\* and not of the recorded best solution.
C9_BreedingLeavesOthersUnchanged ==
  [][(pc \in {"ga_crossover", "ga_mutation"}) =>
       /\ \A i \in 1..Len(population) :
            Deref(heap', population'[i]) = Deref(heap, population[i])
       /\ \A i \in 1..Len(new_population) :
            Deref(heap', new_population'[i]) = Deref(heap, new_population[i])
       /\ \A i \in 1..Len(ga_best_solution) :
            Deref(heap', ga_best_solution'[i]) = Deref(heap, ga_best_solution[i])]_vars

-----------------------------------------------------------------------------
(* Claims about every strategy (checked under Spec) *)

\* C4: at the acceptance step of SimulatedAnnealing.run and of
\* HybridAlgorithm._apply_sa_to_solution, whenever neighbor_cost <
\* current_cost the acceptance probability is 1.0 and the step accepts: the
\* neighbor becomes the current solution and neighbor_cost the current cost,
\* whatever the temperature.
C4_ImprovingNeighborAccepted ==
  [][(pc \in {"sa_accept", "hy_sa_accept"} /\ neighbor_cost < current_cost) =>
       /\ acceptance_probability(current_cost, neighbor_cost, temperature) = "one"
       /\ current_solution' = neighbor
       /\ current_cost' = neighbor_cost]_vars

\* C4 witness: inside _apply_sa_to_solution, after a step that accepted a
\* neighbor cheaper than the solution the annealing started from
C4_Witness ==
  /\ pc = "hy_sa_loop"
  /\ sa_left = 0
  /\ accepted_costs # {}
  /\ current_cost < start_cost
  /\ current_cost = neighbor_cost
  /\ current_solution = neighbor

\* the dict `sol` (course id -> assignment record) uses only ids the
\* reference data allows
UsesKnownIds(d, sol) ==
  /\ DOMAIN sol \subseteq Courses(d)
  /\ \A c \in DOMAIN sol :
       /\ sol[c].teacher_id \in Range(d.eligible_teachers[c])
       /\ sol[c].room_id \in Range(d.preferred_rooms[c])
       /\ sol[c].time_slot_id \in TimeSlots(d)

\* C10: every solution a strategy holds (the GA population, new population,
\* child and best solution, the SA current, best and neighbor solutions, the
\* CP partial and best solutions) has only course ids of the reference data
\* as keys, and gives each course a teacher of its eligible_teachers, a room
\* of its preferred_rooms and a slot of time_slots.
C10_SolutionsUseKnownIds ==
  /\ \A i \in 1..Len(population) : UsesKnownIds(data, Deref(heap, population[i]))
  /\ \A i \in 1..Len(new_population) :
       UsesKnownIds(data, Deref(heap, new_population[i]))
  /\ \A i \in 1..Len(ga_best_solution) :
       UsesKnownIds(data, Deref(heap, ga_best_solution[i]))
  /\ UsesKnownIds(data, Deref(heap, child))
  /\ UsesKnownIds(data, Deref(heap, current_solution))
  /\ UsesKnownIds(data, Deref(heap, best_solution))
  /\ UsesKnownIds(data, Deref(heap, neighbor))
  /\ UsesKnownIds(data, cp_solution)
  /\ UsesKnownIds(data, cp_best_solution)

\* C10 witness: in the second generation of the hybrid, a child cut from two
\* parents and mutated has gone through an accepted annealing step
C10_Witness ==
  /\ pc = "hy_sa_loop"
  /\ sa_target = "child"
  /\ recombined
  /\ generation = 1
  /\ accepted_costs # {}
  /\ Len(new_population) >= 1

\* C11: when every course has an eligible teacher and a preferred room and
\* there is a time slot, every member of the GA population (in GA and in the
\* hybrid), SA's current_solution and best_solution (in run() and in the
\* hybrid's annealing), and the solution GA, SA and the hybrid return have
\* exactly the courses of the reference data as keys.
C11_TotalAssignments ==
  Assignable(data) = Courses(data) =>
    /\ \A i \in 1..Len(population) : DOMAIN population[i] = Courses(data)
    /\ pc \in {"sa_loop", "sa_accept", "sa_done", "hy_sa_loop", "hy_sa_accept",
               "hy_done"} =>
         /\ DOMAIN current_solution = Courses(data)
         /\ DOMAIN best_solution = Courses(data)
    /\ pc \in {"sa_done", "hy_done"} => DOMAIN result[1] = Courses(data)
    /\ pc = "ga_done" =>
         /\ result[1] # <<>>
         /\ DOMAIN result[1][1] = Courses(data)

\* C11 witness: GA has returned after two generations on two courses
C11_Witness ==
  /\ pc = "ga_done"
  /\ Cardinality(Courses(data)) >= 2
  /\ generation >= 2
  /\ DOMAIN result[1][1] = Courses(data)

\* C12 (as stated): the random construction of GA (__init__) and of SA
\* (__init__) raises nothing and yields solutions that hold exactly the
\* courses with a non-empty eligible_teachers and preferred_rooms list.
C12_ConstructionSkipsUnassignable ==
  /\ pc # "ga_init_raised"
  /\ (pc = "ga_evaluate" /\ generation = 0 /\ hybrid_params = <<>>) =>
       \A i \in 1..Len(population) : DOMAIN population[i] = Assignable(data)
  /\ (pc = "sa_loop" /\ iteration = 0) =>
       DOMAIN current_solution = Assignable(data)

-----------------------------------------------------------------------------
(* Claims about ConstraintProgramming (checked under SpecCP) *)

\* no two courses of sol share a teacher and a slot, or a room and a slot, or
\* a student group and a slot
HardConsistent(d, sol) ==
  \A c1, c2 \in DOMAIN sol :
    (c1 # c2 /\ sol[c1].time_slot_id = sol[c2].time_slot_id) =>
      /\ sol[c1].teacher_id # sol[c2].teacher_id
      /\ sol[c1].room_id # sol[c2].room_id
      /\ Range(d.student_groups[c1]) \cap Range(d.student_groups[c2]) = {}

\* some total assignment drawn from eligible teachers x preferred rooms x
\* time slots has no hard-constraint violation
Satisfiable(d) ==
  \E f \in [Courses(d) -> UNION {LegalAssignments(d, c) : c \in Courses(d)}] :
    /\ \A c \in Courses(d) : f[c] \in LegalAssignments(d, c)
    /\ HardConsistent(d, f)

\* C13: on an instance with at least one course, when the backtracking
\* search returns a solution it is a total assignment without hard-constraint
\* violation, and when it gives up (run() goes on to forward checking) no
\* such assignment exists.
C13_BacktrackingComplete ==
  (cp_params # <<>> /\ data.course_ids # <<>>
     /\ Len(data.course_ids) <= BacktrackLimit) =>
    /\ (pc = "cp_done" /\ cp_stack # <<>>) =>
         /\ DOMAIN result[1] = Courses(data)
         /\ \A c \in Courses(data) : result[1][c] \in LegalAssignments(data, c)
         /\ HardConsistent(data, result[1])
    /\ (pc = "cp_forward" \/ (pc = "cp_done" /\ cp_stack = <<>>)) =>
         ~Satisfiable(data)

\* C13 witness: the search returned after giving the first course another
\* triple than the first of its loops
C13_Witness ==
  /\ pc = "cp_done"
  /\ cp_stack # <<>>
  /\ cp_stack[1] > 1
  /\ Cardinality(DOMAIN result[1]) >= 2

\* C14: every solution CP holds at any point of the backtracking search and
\* of every forward-checking pass (partial ones included), its best solution
\* and the solution it returns have no hard-constraint violation.
C14_CPSolutionsConflictFree ==
  /\ HardConsistent(data, cp_solution)
  /\ HardConsistent(data, cp_best_solution)
  /\ pc = "cp_done" => HardConsistent(data, result[1])

\* C14 witness: a later forward-checking pass holds a partial solution, has
\* left a course unassigned, and an earlier pass gave the best solution
C14_Witness ==
  /\ pc = "cp_forward"
  /\ cp_iteration >= 1
  /\ cp_unassigned # <<>>
  /\ cp_solution # EmptyDict
  /\ cp_best_solution # EmptyDict

\* the mode selection of run() as far as the search outcome allows it to be
\* stated for instance d: backtracking is entered exactly for at most
\* BacktrackLimit courses, forward checking follows exactly a search that
\* found nothing to return, and the value returned is the search's total
\* assignment or the forward checking's best solution
RunSelectsMode(d) ==
  /\ pc \in {"cp_backtrack", "cp_forward", "cp_done"}
  /\ cp_modes # <<>>
  /\ (cp_modes[1] = "backtracking") <=> (Len(d.course_ids) <= BacktrackLimit)
  /\ (Len(d.course_ids) <= BacktrackLimit /\ Satisfiable(d)) =>
       /\ cp_modes = <<"backtracking">>
       /\ pc = "cp_done" =>
            /\ result = <<cp_solution>>
            /\ DOMAIN result[1] = Courses(d)
  /\ (Len(d.course_ids) <= BacktrackLimit /\ ~Satisfiable(d)) =>
       /\ pc \in {"cp_forward", "cp_done"} => cp_modes = <<"backtracking", "forward">>
       /\ pc = "cp_done" => result = <<cp_best_solution>>
  /\ Len(d.course_ids) > BacktrackLimit =>
       /\ cp_modes = <<"forward">>
       /\ pc = "cp_done" => result = <<cp_best_solution>>

\* C15: run() attempts the backtracking search exactly when there are at most
\* 20 courses; when the search fails run() does not raise, goes on to
\* iterative forward checking and returns its best solution; when the search
\* succeeds its total assignment is returned and forward checking is not run.
C15_RunSelectsMode ==
  cp_params # <<>> => RunSelectsMode(data)

\* the same for instances with at least one course (holds)
CP_RunSelectsModeNonEmpty ==
  (cp_params # <<>> /\ data.course_ids # <<>>) => RunSelectsMode(data)

-----------------------------------------------------------------------------
(* Claims about HybridAlgorithm._check_convergence (checked under          *)
(* SpecConvergence)                                                        *)

\* the latest value of history h and the one HistoryWindow - 1 entries before
Latest(h) == h[Len(h)]
Prior(h) == h[Len(h) - HistoryWindow + 1]

\* |latest - prior| / |prior| < convergence_threshold, for a prior that is
\* not 0
ChangeBelowThreshold(h, hp) ==
  /\ Prior(h) # 0
  /\ Abs(Latest(h) - Prior(h)) * hp.threshold_den < hp.threshold_num * Abs(Prior(h))

\* C16 as stated: once at least 10 generations are recorded, the stagnation
\* counter is incremented when |latest - prior| / |prior| is below
\* convergence_threshold and reset to zero otherwise.
C16_StagnationFollowsRelativeChange ==
  [][(pc = "cv_ready" /\ pc' = "cv_done" /\ Len(best_fitness_history) >= HistoryWindow) =>
       stagnation_count' =
         IF ChangeBelowThreshold(best_fitness_history, hybrid_params)
         THEN stagnation_count + 1 ELSE 0]_vars

\* C16 amended: once at least 10 generations are recorded, the change is
\* taken between the latest value and the oldest of the last 10 recorded
\* values (the prior), as |latest - prior| / |prior|, and as 0 when the prior
\* is 0; the counter is incremented when the change is below
\* convergence_threshold and reset to zero otherwise; with fewer than 10
\* recorded values the counter is left alone.
C16_StagnationFollowsRelativeChangeOrZeroPrior ==
  [][(pc = "cv_ready" /\ pc' = "cv_done") =>
       stagnation_count' =
         IF Len(best_fitness_history) < HistoryWindow THEN stagnation_count
         ELSE IF \/ ChangeBelowThreshold(best_fitness_history, hybrid_params)
                 \/ Prior(best_fitness_history) = 0 /\ 0 < hybrid_params.threshold_num
              THEN stagnation_count + 1 ELSE 0]_vars

\* C16 witness: with more than 10 values recorded, a change that is not 0 but
\* below the threshold has been counted on top of an earlier stagnant
\* generation
C16_Witness ==
  /\ pc = "cv_done"
  /\ Len(best_fitness_history) > HistoryWindow
  /\ Latest(best_fitness_history) # Prior(best_fitness_history)
  /\ ChangeBelowThreshold(best_fitness_history, hybrid_params)
  /\ stagnation_count = 2

-----------------------------------------------------------------------------
(* Claims about HybridAlgorithm.run (checked under SpecHybrid) *)

\* C17: run() returns only the output of an SA pass that it started after
\* the main loop from ga.best_solution; once that pass has started no other
\* pass starts and nothing but its steps and the return happen, whether the
\* loop ended by convergence or by using up the generations.
C17_FinalPolishBeforeReturn ==
  [][/\ (pc # "hy_done" /\ pc' = "hy_done") =>
          /\ pc = "hy_sa_loop"
          /\ sa_target = "final"
          /\ result' = <<best_solution>>
     /\ (sa_target # "final" /\ sa_target' = "final") =>
          /\ pc = "hy_final"
          /\ ga_best_solution' # <<>>
          /\ current_solution' = ga_best_solution'[1]
          /\ best_solution' = ga_best_solution'[1]
     /\ pc = "hy_final" => (pc' = "hy_sa_loop" /\ sa_target' = "final")
     /\ sa_target = "final" =>
          /\ sa_target' = "final"
          /\ pc \in {"hy_sa_loop", "hy_sa_accept", "hy_done"}
          /\ pc' \in {"hy_sa_loop", "hy_sa_accept", "hy_done"}
     /\ (pc = "ga_breed" /\ pc' \notin {"ga_breed", "ga_crossover", "ga_mutation",
                                         "ga_raised", "hy_evaluate"}) =>
          pc' = "hy_final"]_vars

\* C17 witness: run() has returned the final pass's output after
\* _check_convergence stopped the loop before the last generation
C17_Witness ==
  /\ pc = "hy_done"
  /\ sa_target = "final"
  /\ result = <<best_solution>>
  /\ generation + 1 < ga_params.generations
  /\ stagnation_count >= hybrid_params.max_stagnation_generations

-----------------------------------------------------------------------------
(* Claims about all strategies (checked under Spec) *)

\* C18: no step of a GA, SA, hybrid or CP run changes the reference data:
\* the teachers, the courses with their eligible_teachers, preferred_rooms
\* and student_groups lists, the rooms, the time slots and the student groups
\* are the same after the step as before.
C18_ReferenceDataNeverMutated ==
  [][data' = data]_vars

\* C18 witness: a run has ended after in-place writes to its own solutions
\* (a hybrid run with an accepted SA neighbour, or a CP run that undid an
\* assignment), on data with courses to write about
C18_Witness ==
  /\ data.course_ids # <<>>
  /\ result # <<>>
  /\ \/ pc = "hy_done" /\ accepted_costs # {}
     \/ pc = "cp_done" /\ cp_stack # <<>> /\ cp_stack[1] > 1

-----------------------------------------------------------------------------
(* Claims about the overlap and mentor terms of the evaluators (checked    *)
(* under SpecEval)                                                         *)

\* the (id, time slot) pairs of solution sol for key "teacher_id" or "room_id"
SlotPairs(sol, key) == {<<sol[c][key], sol[c].time_slot_id>> : c \in DOMAIN sol}

\* the sum over the pairs of k - 1, for the k courses that have the pair
BeyondFirst(sol, key) ==
  SumOver([p \in SlotPairs(sol, key) |->
             Cardinality({c \in DOMAIN sol : <<sol[c][key], sol[c].time_slot_id>> = p}) - 1],
          SlotPairs(sol, key))

\* C19: k courses with the same teacher and time slot count k - 1 teacher
\* overlaps, k courses with the same room and time slot count k - 1 room
\* overlaps; on data without mentors these are all of the SA cost (weight 100
\* each) and of the GA fitness (minus 100 each).
C19_OverlapsCountBeyondFirst ==
  pc = "ev_done" =>
    /\ OverlapCount(ev_order, ev_sol, "teacher_id", {}) = BeyondFirst(ev_sol, "teacher_id")
    /\ OverlapCount(ev_order, ev_sol, "room_id", {}) = BeyondFirst(ev_sol, "room_id")
    /\ (\A t \in Teachers(data) : ~data.is_mentor[t]) =>
         /\ ev_cost = 100 * BeyondFirst(ev_sol, "teacher_id")
                      + 100 * BeyondFirst(ev_sol, "room_id")
         /\ ev_fitness = -(100 * BeyondFirst(ev_sol, "teacher_id")
                           + 100 * BeyondFirst(ev_sol, "room_id"))

\* C19 witness: three courses share a teacher and a slot, two of them the
\* room as well, and both evaluators have been applied
C19_Witness ==
  /\ pc = "ev_done"
  /\ Cardinality(DOMAIN ev_sol) = 3
  /\ Cardinality(SlotPairs(ev_sol, "teacher_id")) = 1
  /\ Cardinality(SlotPairs(ev_sol, "room_id")) = 2
  /\ ev_cost = 300

\* C20: the GA fitness charges each mentor 50 * |n - 4|, n being the number
\* of distinct students of the groups of the courses assigned to the mentor;
\* with the overlap terms that is the whole fitness.
C20_FitnessMentorTermCountsDistinctStudents ==
  pc = "ev_done" =>
    ev_fitness =
      -(100 * OverlapCount(ev_order, ev_sol, "teacher_id", {})
        + 100 * OverlapCount(ev_order, ev_sol, "room_id", {})
        + SumOver([t \in Teachers(data) |->
                     IF data.is_mentor[t]
                     THEN 50 * Abs(Cardinality(MentorStudents(data, ev_order, ev_sol, t)) - 4)
                     ELSE 0],
                  Teachers(data)))

-----------------------------------------------------------------------------
(* Claims about the neighbour step and the best-so-far records of SA and   *)
(* of the hybrid's SA passes                                               *)

\* a step of run() or of _apply_sa_to_solution that calls _generate_neighbor
NeighborCall ==
  \/ pc = "sa_loop" /\ pc' = "sa_accept"
  \/ pc = "hy_sa_loop" /\ pc' = "hy_sa_accept"

\* C21: the neighbour returned has the course set of the solution passed in
\* and, compared with the assignments that solution had when it was passed,
\* differs in at most one field of one course, whose new value is one of the
\* course's eligible teachers, of its preferred rooms or of the time slots.
C21_NeighborChangesOneField ==
  [][NeighborCall =>
       LET old == Deref(heap, current_solution)
           new == Deref(heap', neighbor')
       IN /\ DOMAIN new = DOMAIN old
          /\ \/ new = old
             \/ \E c \in DOMAIN old, f \in Fields :
                  /\ new[c][f] \in FieldValues(data, c, f)
                  /\ new = [old EXCEPT ![c][f] = new[c][f]]]_vars

\* C21 witness: a neighbour of a two-course solution whose cost differs from
\* the cost recorded for the solution it was made from
C21_Witness ==
  /\ pc \in {"sa_accept", "hy_sa_accept"}
  /\ Cardinality(DOMAIN neighbor) = 2
  /\ neighbor_cost # current_cost

\* C22: _generate_neighbor leaves the solution passed to it as it was, and
\* after every iteration of SimulatedAnnealing.run current_cost is the cost
\* of current_solution.
C22_NeighborLeavesInputUnchanged ==
  [][/\ (pc = "sa_loop" /\ pc' = "sa_accept") =>
          Deref(heap', current_solution') = Deref(heap, current_solution)
     /\ (pc = "sa_accept" /\ pc' = "sa_loop") =>
          current_cost' = CostOf(data', heap', current_solution')]_vars

\* C23: after every iteration of SimulatedAnnealing.run and at its return,
\* best_cost is the cost of best_solution, and the solution returned has the
\* cost best_cost.
C23_BestCostIsCostOfBestSolution ==
  /\ pc \in {"sa_loop", "sa_done"} => best_cost = CostOf(data, heap, best_solution)
  /\ pc = "sa_done" => CostOf(data, heap, result[1]) = best_cost

-----------------------------------------------------------------------------
(* Claims about the generations of GeneticAlgorithm.run and of             *)
(* HybridAlgorithm.run                                                     *)

\* C24: best_fitness never decreases, after every evaluation it is the
\* larger of its old value and the evaluated population's best fitness (so
\* the maximum over all populations evaluated), and the solution run()
\* returns has the fitness best_fitness.
C24_ReturnedSolutionHasBestFitness ==
  [][/\ best_fitness' >= best_fitness
     /\ (pc = "ga_evaluate" /\ pc' = "ga_elitism") =>
          /\ \A i \in 1..Len(fitness_values') : fitness_values'[i] <= best_fitness'
          /\ \/ best_fitness' = best_fitness
             \/ \E i \in 1..Len(fitness_values') : fitness_values'[i] = best_fitness'
     /\ (pc # "ga_done" /\ pc' = "ga_done") =>
          /\ result' # <<>>
          /\ result'[1] # <<>>
          /\ FitnessOf(data', heap', result'[1][1]) = best_fitness']_vars

\* a step that appends an elite (GA: all of them at once) to new_population
ElitesAppended ==
  \/ pc = "ga_elitism" /\ pc' = "ga_breed"
  \/ pc = "hy_elite" /\ pc' = "hy_elite"
  \/ pc = "hy_sa_loop" /\ sa_target = "elite" /\ pc' = "hy_elite"

\* a step that appends a child made by selection, crossover and mutation
ChildAppended ==
  \/ pc = "ga_mutation" /\ pc' = "ga_breed"
  \/ pc = "hy_sa_loop" /\ sa_target = "child" /\ pc' = "ga_breed"

\* a step that makes new_population the population
PopulationReplaced ==
  pc = "ga_breed" /\ pc' \in {"ga_evaluate", "hy_evaluate", "hy_final"}

\* C25: with elitism_count <= population_size, the population that replaces
\* the old one at the end of a generation of GeneticAlgorithm.run or
\* HybridAlgorithm.run has exactly population_size members; its first
\* elitism_count members were appended by the elitism loop, all later ones
\* by the breeding loop after selection, crossover and mutation.
C25_PopulationSizeRestored ==
  [][(ga_params # <<>> /\ ga_params.elitism_count <= ga_params.population_size) =>
       /\ PopulationReplaced =>
            /\ Len(new_population) = ga_params.population_size
            /\ Len(population') = ga_params.population_size
       /\ ElitesAppended =>
            /\ Len(new_population) < ga_params.elitism_count
            /\ Len(new_population') > Len(new_population)
            /\ Len(new_population') <= ga_params.elitism_count
       /\ ChildAppended =>
            /\ Len(new_population) >= ga_params.elitism_count
            /\ Len(new_population') = Len(new_population) + 1
            /\ Len(new_population') <= ga_params.population_size
       /\ (Len(new_population') > Len(new_population)) =>
            (ElitesAppended \/ ChildAppended)]_vars

\* C25 witness: a generation has ended and its population of population_size
\* members, elites and children, is about to be evaluated
C25_Witness ==
  /\ pc \in {"ga_evaluate", "hy_evaluate"}
  /\ generation >= 1
  /\ ga_params.elitism_count < ga_params.population_size
  /\ Len(population) = ga_params.population_size

-----------------------------------------------------------------------------
(* Claims about ConstraintProgramming's two modes (checked under SpecCP) *)

\* a step that ends a pass of _iterative_forward_checking
PassEnds ==
  /\ pc = "cp_forward"
  /\ Len(cp_passes') = Len(cp_passes) + 1

\* a step by which _iterative_forward_checking returns
ForwardCheckingReturns == pc = "cp_forward" /\ pc' = "cp_done"

\* the solution returned is that of a pass with the fewest unassigned courses
\* among the passes ended
ReturnsAMinimalPass ==
  \E i \in 1..Len(cp_passes') :
    /\ cp_passes'[i].solution = result'[1]
    /\ \A j \in 1..Len(cp_passes') :
         cp_passes'[i].unassigned <= cp_passes'[j].unassigned

\* C26: _iterative_forward_checking ends at most max_iterations passes, stops
\* right after the first pass that leaves at most max_unassigned courses
\* unassigned (and after no other pass before the iterations are used up),
\* and returns the solution of a pass with the fewest unassigned courses.
C26_ForwardCheckingStopsAtTarget ==
  [][cp_params # <<>> =>
       /\ Len(cp_passes') <= cp_params.max_iterations
       /\ PassEnds =>
            ((Len(cp_unassigned) <= cp_params.max_unassigned) <=> (pc' = "cp_done"))
       /\ ForwardCheckingReturns =>
            /\ PassEnds \/ Len(cp_passes) = cp_params.max_iterations
            /\ ReturnsAMinimalPass]_vars

\* the same without the early stop (holds): the cap on the passes, no stop
\* after a pass above the target, and the minimal pass returned
CP_ForwardCheckingReturnsBest ==
  [][cp_params # <<>> =>
       /\ Len(cp_passes') <= cp_params.max_iterations
       /\ PassEnds =>
            ((pc' = "cp_done") => (Len(cp_unassigned) <= cp_params.max_unassigned))
       /\ ForwardCheckingReturns =>
            /\ PassEnds \/ Len(cp_passes) = cp_params.max_iterations
            /\ ReturnsAMinimalPass]_vars

\* the number of (teacher, room) combinations of course c
Combinations(d, c) == Len(d.eligible_teachers[c]) * Len(d.preferred_rooms[c])

\* the (teacher, room, slot) triple of course c that loops over the eligible
\* teachers, inside them the preferred rooms, inside them the time slots
\* reach in place j
TripleInLoopOrder(d, c, j) ==
  LET ts == d.eligible_teachers[c]
      rs == d.preferred_rooms[c]
      ss == d.slot_ids
  IN CHOOSE a \in LegalAssignments(d, c) :
       \E ti \in 1..Len(ts), ri \in 1..Len(rs), si \in 1..Len(ss) :
         /\ a = Assignment(ts[ti], rs[ri], ss[si])
         /\ j = ((ti - 1) * Len(rs) + (ri - 1)) * Len(ss) + si

\* C27: the backtracking search takes the courses in an order in which a
\* course with fewer (teacher, room) combinations comes before one with
\* more, the courses assigned are always the first ones of that order, and a
\* course is given the triple the loops over teachers, rooms and slots are
\* at exactly when that triple breaks no hard constraint with the courses
\* already assigned; otherwise the loops move on to the next triple.
C27_MostConstrainedFirst ==
  [][(cp_params # <<>> /\ pc = "cp_backtrack") =>
       LET depth == Len(cp_stack)
       IN /\ Range(cp_order) = Courses(data)
          /\ Len(cp_order) = Len(data.course_ids)
          /\ \A i, j \in 1..Len(cp_order) :
               Combinations(data, cp_order[i]) < Combinations(data, cp_order[j]) => i < j
          /\ DOMAIN cp_solution = {cp_order[i] : i \in 1..(depth - 1)}
          /\ (DOMAIN cp_solution' # DOMAIN cp_solution
                /\ DOMAIN cp_solution \subseteq DOMAIN cp_solution') =>
               /\ DOMAIN cp_solution' = DOMAIN cp_solution \cup {cp_order[depth]}
               /\ cp_solution'[cp_order[depth]] =
                    TripleInLoopOrder(data, cp_order[depth], cp_stack[depth])
               /\ HardConsistent(data, cp_solution')
          /\ (cp_solution' = cp_solution /\ pc' = "cp_backtrack" /\ Len(cp_stack') = depth) =>
               /\ cp_stack' = [cp_stack EXCEPT ![depth] = cp_stack[depth] + 1]
               /\ ~HardConsistent(data,
                     With(cp_solution, cp_order[depth],
                          TripleInLoopOrder(data, cp_order[depth], cp_stack[depth])))]_vars

\* C27 witness: the sort has put c2 (one combination) before c1 (two), c2 is
\* assigned and the loops of c1 have moved past a triple that broke a hard
\* constraint
C27_Witness ==
  /\ pc = "cp_backtrack"
  /\ Len(cp_order) = 2
  /\ cp_order # data.course_ids
  /\ Combinations(data, cp_order[1]) < Combinations(data, cp_order[2])
  /\ DOMAIN cp_solution = {cp_order[1]}
  /\ Len(cp_stack) = 2
  /\ cp_stack[2] > 1

\* HybridAlgorithm.run: the end of one pass of the generation loop, after
\* self.ga.population = new_population and the call of _check_convergence
GenerationEnds ==
  /\ hybrid_params # <<>>
  /\ pc = "ga_breed"
  /\ pc' \in {"hy_evaluate", "hy_final"}

\* HybridAlgorithm.run: the pass ends in the break of the convergence check
StopsByConvergence == GenerationEnds /\ pc' = "hy_final" /\ generation' = generation

ApplySAReturns == pc = "hy_sa_loop" /\ sa_left = 0 /\ pc' # "hy_sa_loop"

\* C29: the solution _apply_sa_to_solution returns costs no more than its
\* input did when the call began (start_cost).
C29_RefinementNeverWorsens ==
  [][ApplySAReturns => CostOf(data, heap, best_solution) <= start_cost]_vars

\* C30: on an instance with at least one course _crossover never raises, so
\* no GA or hybrid run ends in an exception raised by it.
C30_CrossoverNeverFails ==
  Len(data.course_ids) >= 1 => pc # "ga_raised"

=============================================================================
